---- MODULE Spec2Model ----
(***************************************************************************)
(* The inventory ledger of the molar-stock server: the route handlers that *)
(* change location_inventory, op_supplies, supplies and supply_logs, run   *)
(* as concurrent PostgreSQL transactions (READ COMMITTED, row locks).      *)
(* Every database statement of a handler is one atomic step; a statement   *)
(* that has to wait for a row lock is not enabled until the lock is free.  *)
(***************************************************************************)
EXTENDS Integers, Sequences, FiniteSets, TLC

VARIABLES
  db,   \* the committed contents of the tables, and the id sequences
  tx,   \* per request slot: the handler's position, locals, and its open transaction
  db0   \* history: the committed contents before the first request was served

vars == <<db, tx, db0>>

(* ------------------------------ bounds -------------------------------- *)

\* the largest quantity of a request entry and of an initial stock row
MaxQty == 2

\* the largest number of entries of a batch
MaxBatch == 2

\* the largest id of a users row: registrations stop there
MaxAccounts == 4

\* the request slots: two requests can be in flight at once
Procs == {1, 2}

(* --------------------------- the store -------------------------------- *)

Tables == {"inventory", "location_inventory", "supplies", "op_supplies",
           "supply_logs", "ops", "locations", "users"}

Ids(S) == {r.id : r \in S}

\* the write set of a transaction that has written nothing
EmptyWs == [t \in Tables |-> [ins |-> {}, upd |-> {}, del |-> {}]]

\* the rows of table t a statement of p sees: what is committed, overlaid
\* with p's own uncommitted inserts, updates and deletes
Visible(p, t) ==
  LET w == tx[p].ws[t]
  IN  {r \in db[t] : r.id \notin (Ids(w.upd) \cup w.del)} \cup w.upd \cup w.ins

\* a row lock on (t, id) is held by a transaction other than p
LockedByOther(p, t, id) == \E q \in Procs \ {p} : <<t, id>> \in tx[q].locks

\* the write set w with row nr (a new version of the row with nr.id) written
WsUpdate(w, nr) ==
  IF nr.id \in Ids(w.ins)
    THEN [w EXCEPT !.ins = {r \in @ : r.id # nr.id} \cup {nr}]
    ELSE [w EXCEPT !.upd = {r \in @ : r.id # nr.id} \cup {nr}]

\* the committed rows among S (those another transaction may hold a lock on)
Committed(t, S) == {r \in S : r.id \in Ids(db[t])}

\* statement of p on rows S of table t has to wait for a lock
MustWait(p, t, S) == \E r \in Committed(t, S) : LockedByOther(p, t, r.id)

LockKeys(t, S) == {<<t, r.id>> : r \in Committed(t, S)}

\* the stock rows of an (item, location) pair in a set of rows
RowsOf(S, inventory_id, location_id) ==
  {r \in S : r.inventory_id = inventory_id /\ r.location_id = location_id}

(* ------------------------- a request slot ----------------------------- *)

NoReq == [kind |-> "none"]

IdleTx == [pc |-> "idle", req |-> NoReq, ws |-> EmptyWs, locks |-> {}, shared |-> {},
           i |-> 0, inventoryId |-> 0, commonAreaId |-> 0,
           rowId |-> 0, rowCount |-> 0, newQty |-> 0, unitCost |-> 0, status |-> 0,
           result |-> {}]

InTx(p) == tx[p].pc \notin {"idle", "done"}

\* ROLLBACK, release of the client and the response with status code
RollbackCommits(p, code) ==
  /\ db' = [x \in DOMAIN db |-> IF x = "seq" THEN db.seq ELSE Visible(p, x)]
  /\ tx' = [tx EXCEPT ![p] = [@ EXCEPT !.pc = "done", !.status = code,
                                       !.ws = EmptyWs, !.locks = {},
                                       !.shared = {}]]

Rollback(p, code) ==
  /\ db' = db
  /\ tx' = [tx EXCEPT ![p] = [@ EXCEPT !.pc = "done", !.status = code,
                                       !.ws = EmptyWs, !.locks = {},
                                       !.shared = {}]]

\* COMMIT, release of the client and the response with status code
Commit(p, code) ==
  /\ db' = [x \in DOMAIN db |-> IF x = "seq" THEN db.seq ELSE Visible(p, x)]
  /\ tx' = [tx EXCEPT ![p] = [@ EXCEPT !.pc = "done", !.status = code,
                                       !.ws = EmptyWs, !.locks = {},
                                       !.shared = {}]]

\* a response sent before any transaction was begun
Respond(p, req, code) ==
  /\ db' = db
  /\ tx' = [tx EXCEPT ![p] = [@ EXCEPT !.pc = "done", !.req = req, !.status = code]]

\* BEGIN: the handler holds request req and goes on at pc
Begin(p, req, pc) ==
  /\ db' = db
  /\ tx' = [tx EXCEPT ![p] = [@ EXCEPT !.pc = pc, !.req = req, !.i = 1]]

\* a statement of the open transaction rejects (connection lost, or the
\* statement_timeout of 30 s while waiting for a lock): the catch block
\* rolls back and answers 500
StoreFailure(p) ==
  /\ InTx(p)
  /\ Rollback(p, 500)

\* the owner check: SELECT 1 FROM inventory WHERE id = $1 AND user_id = $2
OwnsInventory(p, inventory_id, user_id) ==
  \E r \in Visible(p, "inventory") : r.id = inventory_id /\ r.user_id = user_id

\* the quantity an UPDATE writes: SET quantity = quantity + v, or SET quantity = v
NewQuantity(mode, old, v) == IF mode = "set" THEN v ELSE old + v

\* the write set w with an UPDATE of the quantity applied to the rows S
RECURSIVE WriteAll(_, _, _, _)
WriteAll(w, S, mode, v) ==
  IF S = {} THEN w
  ELSE LET r == CHOOSE x \in S : TRUE
       IN  WriteAll(WsUpdate(w, [r EXCEPT !.quantity = NewQuantity(mode, @, v)]),
                    S \ {r}, mode, v)

\* UPDATE t SET quantity = ... on the rows S that p sees: waits for their
\* locks, locks them, writes the new versions; then the handler goes on at pc
UpdateTable(p, t, S, mode, v, pc, i) ==
  /\ ~MustWait(p, t, S)
  /\ db' = db
  /\ tx' = [tx EXCEPT ![p] = [@ EXCEPT
        !.ws = [@ EXCEPT ![t] = WriteAll(@, S, mode, v)],
        !.locks = @ \cup LockKeys(t, S),
        !.pc = pc, !.i = i]]

\* UPDATE location_inventory SET quantity = ... on the rows S
UpdateQuantity(p, S, mode, v, pc, i) ==
  UpdateTable(p, "location_inventory", S, mode, v, pc, i)

\* a location_inventory without the unique index: no pair is ever taken
StockKeyNeverTaken(p, inventory_id, location_id) == FALSE

\* the unique index on (inventory_id, location_id) finds a live row of the pair
StockKeyTaken(p, inventory_id, location_id) ==
  RowsOf(Visible(p, "location_inventory"), inventory_id, location_id) # {}

\* another open transaction has inserted or deleted a row of the pair: an
\* INSERT of the same pair waits for it to end
StockKeyPending(p, inventory_id, location_id) ==
  \E q \in Procs \ {p} :
    LET w == tx[q].ws["location_inventory"]
    IN  \/ RowsOf(w.ins, inventory_id, location_id) # {}
        \/ \E r \in RowsOf(db.location_inventory, inventory_id, location_id) :
             r.id \in w.del

\* the foreign keys of location_inventory: the item and the location exist
StockReferencesHold(p, inventory_id, location_id) ==
  /\ inventory_id \in Ids(Visible(p, "inventory"))
  /\ location_id \in Ids(Visible(p, "locations"))

\* another open transaction has deleted the item the new row references: the
\* foreign-key check of the INSERT waits for it to end
StockReferencePending(p, inventory_id) ==
  \E q \in Procs \ {p} : inventory_id \in tx[q].ws["inventory"].del

\* the NULL of a low_stock_threshold that is not set
Null == -1

\* the row an INSERT INTO location_inventory creates (no threshold given)
NewStockRow(inventory_id, location_id, quantity) ==
  [id |-> db.seq["location_inventory"] + 1, inventory_id |-> inventory_id,
   location_id |-> location_id, quantity |-> quantity,
   low_stock_threshold |-> Null]

\* the new row of table t (location_inventory) is written; its foreign-key
\* check leaves a key-share lock on the item and the location it references
InsertRow(p, t, row, pc, i) ==
  /\ db' = [db EXCEPT !.seq[t] = @ + 1]
  /\ tx' = [tx EXCEPT ![p] = [@ EXCEPT
        !.ws = [@ EXCEPT ![t].ins = @ \cup {row}],
        !.shared = @ \cup {<<"inventory", row.inventory_id>>,
                           <<"locations", row.location_id>>},
        !.pc = pc, !.i = i]]

\* INSERT INTO location_inventory (...) VALUES (...): a duplicate of the pair
\* raises 23505, which the catch block answers with ROLLBACK and 500
InsertStock(p, inventory_id, location_id, quantity, pc, i) ==
  /\ ~StockKeyPending(p, inventory_id, location_id)
  /\ ~StockReferencePending(p, inventory_id)
  /\ IF StockKeyTaken(p, inventory_id, location_id)
          \/ ~StockReferencesHold(p, inventory_id, location_id)
       THEN Rollback(p, 500)
       ELSE InsertRow(p, "location_inventory",
                      NewStockRow(inventory_id, location_id, quantity), pc, i)

\* INSERT ... ON CONFLICT (inventory_id, location_id) DO UPDATE
\*   SET quantity = location_inventory.quantity + $3
UpsertStock(p, inventory_id, location_id, quantity, pc, i) ==
  LET rows == RowsOf(Visible(p, "location_inventory"), inventory_id, location_id)
  IN  IF rows # {}
        THEN UpdateQuantity(p, rows, "add", quantity, pc, i)
      ELSE IF ~StockReferencesHold(p, inventory_id, location_id)
        THEN Rollback(p, 500)
      ELSE /\ ~StockKeyPending(p, inventory_id, location_id)
           /\ ~StockReferencePending(p, inventory_id)
           /\ InsertRow(p, "location_inventory",
                        NewStockRow(inventory_id, location_id, quantity), pc, i)

Goto(p, pc) ==
  /\ db' = db
  /\ tx' = [tx EXCEPT ![p].pc = pc]

\* pc = "commit": await client.query('COMMIT'); res.json(...)
CommitTx(p) ==
  /\ tx[p].pc = "commit"
  /\ Commit(p, 200)

(* ------------------- POST /api/inventory/consume ---------------------- *)

InventoryConsumeStart(p, req) ==
  /\ tx[p].pc = "idle"
  /\ IF req.location = 0 \/ Len(req.supplies) = 0
       THEN Respond(p, req, 400)
       ELSE Begin(p, req, "consume_item")

\* the head of the loop over supplies, the silent skip, the owner check
InventoryConsumeItem(p) ==
  /\ tx[p].pc = "consume_item"
  /\ LET req == tx[p].req
         i == tx[p].i
     IN  IF i > Len(req.supplies) THEN Commit(p, 200)
         ELSE LET item == req.supplies[i]
              IN  IF item.inventory_id = 0 \/ item.quantity <= 0
                    THEN /\ db' = db
                         /\ tx' = [tx EXCEPT ![p].i = i + 1]
                  ELSE IF ~OwnsInventory(p, item.inventory_id, req.user)
                    THEN Rollback(p, 403)
                  ELSE Goto(p, "consume_lock")

\* SELECT id, quantity ... FOR UPDATE, and the checks on what it returned
InventoryConsumeLockNoForUpdate(p) ==
  /\ tx[p].pc = "consume_lock"
  /\ LET req == tx[p].req
         item == req.supplies[tx[p].i]
         rows == RowsOf(Visible(p, "location_inventory"), item.inventory_id, req.location)
     IN  IF rows = {} THEN Rollback(p, 404)
         ELSE \E r \in rows :
                IF r.quantity < item.quantity THEN Rollback(p, 400)
                ELSE /\ db' = db
                     /\ tx' = [tx EXCEPT ![p] = [@ EXCEPT
                           !.rowId = r.id, !.pc = "consume_sub"]]

InventoryConsumeLock(p) ==
  /\ tx[p].pc = "consume_lock"
  /\ LET req == tx[p].req
         item == req.supplies[tx[p].i]
         rows == RowsOf(Visible(p, "location_inventory"), item.inventory_id, req.location)
     IN  IF rows = {} THEN Rollback(p, 404)
         ELSE /\ ~MustWait(p, "location_inventory", rows)
              /\ \E r \in rows :
                   IF r.quantity < item.quantity THEN Rollback(p, 400)
                   ELSE /\ db' = db
                        /\ tx' = [tx EXCEPT ![p] = [@ EXCEPT
                              !.locks = @ \cup LockKeys("location_inventory", rows),
                              !.rowId = r.id, !.pc = "consume_sub"]]

\* UPDATE location_inventory SET quantity = quantity - $1 WHERE id = $2
InventoryConsumeSub(p) ==
  /\ tx[p].pc = "consume_sub"
  /\ LET item == tx[p].req.supplies[tx[p].i]
         rows == {r \in Visible(p, "location_inventory") : r.id = tx[p].rowId}
     IN  UpdateQuantity(p, rows, "add", 0 - item.quantity, "consume_item", tx[p].i + 1)

(* -------------------- POST /api/barcode/consume ----------------------- *)

BarcodeConsumeStart(p, req) ==
  /\ tx[p].pc = "idle"
  /\ IF req.quantity <= 0
       THEN Respond(p, req, 400)
       ELSE Begin(p, req, "scan_owner")

\* SELECT user_id FROM inventory WHERE id = $1
BarcodeConsumeOwner(p) ==
  /\ tx[p].pc = "scan_owner"
  /\ IF ~OwnsInventory(p, tx[p].req.inventory_id, tx[p].req.user)
       THEN Rollback(p, 403)
       ELSE Goto(p, "scan_lock")

\* SELECT quantity ... FOR UPDATE, and the checks on what it returned
BarcodeConsumeLock(p) ==
  /\ tx[p].pc = "scan_lock"
  /\ LET req == tx[p].req
         rows == RowsOf(Visible(p, "location_inventory"), req.inventory_id, req.location_id)
     IN  IF rows = {} THEN Rollback(p, 400)
         ELSE /\ ~MustWait(p, "location_inventory", rows)
              /\ \E r \in rows :
                   IF r.quantity < req.quantity THEN Rollback(p, 400)
                   ELSE /\ db' = db
                        /\ tx' = [tx EXCEPT ![p] = [@ EXCEPT
                              !.locks = @ \cup LockKeys("location_inventory", rows),
                              !.pc = "scan_sub"]]

\* UPDATE ... SET quantity = quantity - $1 WHERE inventory_id = $2 AND location_id = $3
BarcodeConsumeSub(p) ==
  /\ tx[p].pc = "scan_sub"
  /\ LET req == tx[p].req
         rows == RowsOf(Visible(p, "location_inventory"), req.inventory_id, req.location_id)
     IN  UpdateQuantity(p, rows, "add", 0 - req.quantity, "commit", tx[p].i)

(* ---------------------- POST /api/inventory/add ----------------------- *)

\* name ILIKE $1 with a pattern that holds no wildcard: equal up to case
Lower(name) == IF name = "Gauze" THEN "gauze" ELSE name

NameMatches(name, pattern) == Lower(name) = Lower(pattern)

\* SELECT id, name FROM inventory WHERE barcode = $1 AND user_id = $2
BarcodeRows(p, barcode, user_id) ==
  {r \in Visible(p, "inventory") : r.barcode = barcode /\ r.user_id = user_id}

\* another open transaction has written an item with this barcode for the
\* account (inserted it, or set or replaced the barcode by an UPDATE): an
\* INSERT or UPDATE that writes the same barcode waits for it to end
BarcodeKeyPending(p, barcode, user_id) ==
  /\ barcode # ""
  /\ \E q \in Procs \ {p} :
       LET w == tx[q].ws["inventory"]
       IN  \/ \E r \in w.ins \cup w.upd : r.barcode = barcode /\ r.user_id = user_id
           \/ \E r \in db.inventory :
                /\ r.barcode = barcode /\ r.user_id = user_id
                /\ r.id \in Ids(w.upd) \cup w.del

\* the unique index on the barcode of an account finds a live item
BarcodeKeyTaken(p, barcode, user_id, id) ==
  /\ barcode # ""
  /\ \E r \in BarcodeRows(p, barcode, user_id) : r.id # id

\* INSERT INTO inventory (...) VALUES (...) RETURNING id: the new id is kept
\* in inventoryId; a duplicate barcode raises 23505, answered with `code`
InsertInventory(p, name, barcode, user_id, code, pc) ==
  LET id == db.seq["inventory"] + 1
  IN  /\ ~BarcodeKeyPending(p, barcode, user_id)
      /\ IF BarcodeKeyTaken(p, barcode, user_id, 0)
           THEN Rollback(p, code)
           ELSE /\ db' = [db EXCEPT !.seq["inventory"] = id]
                /\ tx' = [tx EXCEPT ![p] = [@ EXCEPT
                      !.ws = [@ EXCEPT !["inventory"].ins = @ \cup
                         {[id |-> id, name |-> name, barcode |-> barcode,
                           user_id |-> user_id]}],
                      !.inventoryId = id, !.pc = pc]]

\* targetLocationId = destination === 'common_area' ? commonAreaId : location
\* (the 'transfer' branch sets it to location again)
TargetLocationId(p) ==
  IF tx[p].req.destination = "common_area" THEN tx[p].commonAreaId
  ELSE tx[p].req.location

\* where the loop body goes on once inventoryId is known
AfterResolve(p) == IF tx[p].req.destination = "transfer" THEN "add_from" ELSE "add_select"

\* BEGIN; SELECT id FROM locations WHERE name = 'Common Area' AND user_id = $2
InventoryAddStart(p, req) ==
  /\ tx[p].pc = "idle"
  /\ LET rows == {l \in db.locations : l.name = "Common Area" /\ l.user_id = req.user}
     IN  IF rows = {} THEN Respond(p, req, 400)
         ELSE \E l \in rows :
                /\ db' = db
                /\ tx' = [tx EXCEPT ![p] = [@ EXCEPT !.pc = "add_item", !.req = req,
                                                     !.i = 1, !.commonAreaId = l.id]]

\* the head of the loop over supplies, the silent skip, and the first
\* statement of the body: the lookup by name (isNew) or the owner check
InventoryAddItem(p) ==
  /\ tx[p].pc = "add_item"
  /\ LET req == tx[p].req
         i == tx[p].i
     IN  IF i > Len(req.supplies) THEN Commit(p, 200)
         ELSE LET item == req.supplies[i]
                  invRows == {r \in Visible(p, "inventory") :
                                NameMatches(r.name, item.name) /\ r.user_id = req.user}
              IN  IF item.isNew
                    THEN IF item.name = "" \/ item.quantity <= 0
                           THEN /\ db' = db
                                /\ tx' = [tx EXCEPT ![p].i = i + 1]
                         ELSE IF invRows # {}
                           THEN \E r \in invRows :
                                  /\ db' = db
                                  /\ tx' = [tx EXCEPT ![p] = [@ EXCEPT
                                        !.inventoryId = r.id, !.pc = AfterResolve(p)]]
                         ELSE IF item.barcode # "" THEN Goto(p, "add_barcode")
                         ELSE Goto(p, "add_insert_inventory")
                  ELSE IF item.inventory_id = 0 \/ item.quantity <= 0
                    THEN /\ db' = db
                         /\ tx' = [tx EXCEPT ![p].i = i + 1]
                  ELSE IF ~OwnsInventory(p, item.inventory_id, req.user)
                    THEN Rollback(p, 403)
                  ELSE /\ db' = db
                       /\ tx' = [tx EXCEPT ![p] = [@ EXCEPT
                             !.inventoryId = item.inventory_id, !.pc = AfterResolve(p)]]

\* SELECT id, name FROM inventory WHERE barcode = $1 AND user_id = $2
InventoryAddBarcode(p) ==
  /\ tx[p].pc = "add_barcode"
  /\ LET item == tx[p].req.supplies[tx[p].i]
     IN  IF BarcodeRows(p, item.barcode, tx[p].req.user) # {}
           THEN Rollback(p, 400)
           ELSE Goto(p, "add_insert_inventory")

\* INSERT INTO inventory (...) RETURNING id; a duplicate barcode raises 23505,
\* which the catch block answers with ROLLBACK and 400
InventoryAddInsertInventory(p) ==
  /\ tx[p].pc = "add_insert_inventory"
  /\ LET item == tx[p].req.supplies[tx[p].i]
     IN  InsertInventory(p, item.name, item.barcode, tx[p].req.user, 400, AfterResolve(p))

\* destination === 'transfer': SELECT id, quantity of the Common Area row,
\* without a lock, and the check of what it returned
InventoryAddFrom(p) ==
  /\ tx[p].pc = "add_from"
  /\ LET item == tx[p].req.supplies[tx[p].i]
         fromRows == RowsOf(Visible(p, "location_inventory"), tx[p].inventoryId,
                            tx[p].commonAreaId)
     IN  IF fromRows = {} THEN Rollback(p, 400)
         ELSE \E r \in fromRows :
                IF r.quantity < item.quantity THEN Rollback(p, 400)
                ELSE /\ db' = db
                     /\ tx' = [tx EXCEPT ![p] = [@ EXCEPT !.rowId = r.id, !.pc = "add_sub"]]

\* UPDATE location_inventory SET quantity = quantity - $1 WHERE id = $2
InventoryAddSub(p) ==
  /\ tx[p].pc = "add_sub"
  /\ LET item == tx[p].req.supplies[tx[p].i]
         rows == {r \in Visible(p, "location_inventory") : r.id = tx[p].rowId}
     IN  UpdateQuantity(p, rows, "add", 0 - item.quantity, "add_select", tx[p].i)

\* the check of targetLocationId, then
\* SELECT id FROM location_inventory WHERE inventory_id = $1 AND location_id = $2
InventoryAddSelect(p) ==
  /\ tx[p].pc = "add_select"
  /\ LET locRows == RowsOf(Visible(p, "location_inventory"), tx[p].inventoryId,
                           TargetLocationId(p))
     IN  IF TargetLocationId(p) = 0 THEN Rollback(p, 400)
         ELSE IF locRows # {}
           THEN \E r \in locRows :
                  /\ db' = db
                  /\ tx' = [tx EXCEPT ![p] = [@ EXCEPT !.rowId = r.id, !.pc = "add_update"]]
         ELSE Goto(p, "add_insert")

\* UPDATE location_inventory SET quantity = quantity + $1 WHERE id = $2
InventoryAddUpdate(p) ==
  /\ tx[p].pc = "add_update"
  /\ LET item == tx[p].req.supplies[tx[p].i]
         rows == {r \in Visible(p, "location_inventory") : r.id = tx[p].rowId}
     IN  UpdateQuantity(p, rows, "add", item.quantity, "add_item", tx[p].i + 1)

\* INSERT INTO location_inventory (inventory_id, location_id, quantity, ...)
InventoryAddInsert(p) ==
  /\ tx[p].pc = "add_insert"
  /\ LET item == tx[p].req.supplies[tx[p].i]
     IN  InsertStock(p, tx[p].inventoryId, TargetLocationId(p), item.quantity,
                     "add_item", tx[p].i + 1)

(* ---------------------- PUT /api/inventory/:id ------------------------ *)

InventoryPutStart(p, req) ==
  /\ tx[p].pc = "idle"
  /\ Begin(p, req, "put_owner")

\* SELECT 1 FROM inventory WHERE id = $1 AND user_id = $2
InventoryPutOwner(p) ==
  /\ tx[p].pc = "put_owner"
  /\ IF ~OwnsInventory(p, tx[p].req.id, tx[p].req.user) THEN Rollback(p, 403)
     ELSE IF tx[p].req.barcode # "" THEN Goto(p, "put_barcode")
     ELSE Goto(p, "put_update_inventory")

\* SELECT id, name FROM inventory WHERE barcode = $1 AND id != $2 AND user_id = $3
InventoryPutBarcode(p) ==
  /\ tx[p].pc = "put_barcode"
  /\ IF \E r \in BarcodeRows(p, tx[p].req.barcode, tx[p].req.user) : r.id # tx[p].req.id
       THEN Rollback(p, 400)
       ELSE Goto(p, "put_update_inventory")

\* UPDATE inventory SET name = $1, barcode = $2, ... WHERE id = $7; a duplicate
\* barcode raises 23505, which the catch block answers with ROLLBACK and 400
InventoryPutUpdateInventory(p) ==
  /\ tx[p].pc = "put_update_inventory"
  /\ LET req == tx[p].req
         rows == {r \in Visible(p, "inventory") : r.id = req.id}
     IN  /\ ~MustWait(p, "inventory", rows)
         /\ ~BarcodeKeyPending(p, req.barcode, req.user)
         /\ IF rows # {} /\ BarcodeKeyTaken(p, req.barcode, req.user, req.id)
              THEN Rollback(p, 400)
              ELSE /\ db' = db
                   /\ \E r \in (IF rows = {} THEN {NoReq} ELSE rows) :
                        tx' = [tx EXCEPT ![p] = [@ EXCEPT
                          !.ws = IF rows = {} THEN @
                                 ELSE [@ EXCEPT !["inventory"] = WsUpdate(@,
                                        [r EXCEPT !.name = req.name, !.barcode = req.barcode])],
                          !.locks = @ \cup LockKeys("inventory", rows),
                          !.pc = "put_select"]]

\* SELECT id FROM location_inventory WHERE inventory_id = $1 AND location_id = $2
InventoryPutSelect(p) ==
  /\ tx[p].pc = "put_select"
  /\ LET rows == RowsOf(Visible(p, "location_inventory"), tx[p].req.id,
                        tx[p].req.location_id)
     IN  IF rows # {}
           THEN \E r \in rows :
                  /\ db' = db
                  /\ tx' = [tx EXCEPT ![p] = [@ EXCEPT !.rowId = r.id, !.pc = "put_write"]]
           ELSE /\ db' = db
                /\ tx' = [tx EXCEPT ![p] = [@ EXCEPT !.rowId = 0, !.pc = "put_write"]]

\* UPDATE location_inventory SET quantity = $1, low_stock_threshold = $2
\* WHERE id = $3, or INSERT INTO location_inventory (...) when the SELECT
\* found no row; the body carries no low_stock_threshold: NULL is written
InventoryPutWrite(p) ==
  /\ tx[p].pc = "put_write"
  /\ LET req == tx[p].req
         rows == {r \in Visible(p, "location_inventory") : r.id = tx[p].rowId}
         unset == {[r EXCEPT !.low_stock_threshold = Null] : r \in rows}
     IN  IF tx[p].rowId # 0
           THEN UpdateQuantity(p, unset, "set", req.quantity, "commit", tx[p].i)
           ELSE InsertStock(p, req.id, req.location_id, req.quantity, "commit", tx[p].i)

(* --------------------- POST /api/barcode/create ----------------------- *)

BarcodeCreateStart(p, req) ==
  /\ tx[p].pc = "idle"
  /\ Begin(p, req, "create_inventory")

\* INSERT INTO inventory (user_id, name, ..., barcode) VALUES (...) RETURNING id
BarcodeCreateInventory(p) ==
  /\ tx[p].pc = "create_inventory"
  /\ LET req == tx[p].req
     IN  InsertInventory(p, req.name, req.barcode, req.user_id, 500, "create_stock")

\* INSERT INTO location_inventory (inventory_id, location_id, quantity, ...)
BarcodeCreateStock(p) ==
  /\ tx[p].pc = "create_stock"
  /\ InsertStock(p, tx[p].inventoryId, tx[p].req.location_id, tx[p].req.quantity,
                 "commit", tx[p].i)

(* ------------------- POST /api/inventory/transfer --------------------- *)

InventoryTransferStart(p, req) ==
  /\ tx[p].pc = "idle"
  /\ IF req.inventory_id = 0 \/ req.source_location_id = 0
          \/ req.destination_location_id = 0 \/ req.quantity = 0
       THEN Respond(p, req, 400)
       ELSE Begin(p, req, "transfer_owner")

\* 1. SELECT 1 FROM inventory WHERE id = $1 AND user_id = $2
InventoryTransferOwner(p) ==
  /\ tx[p].pc = "transfer_owner"
  /\ IF ~OwnsInventory(p, tx[p].req.inventory_id, tx[p].req.user)
       THEN Rollback(p, 403)
       ELSE Goto(p, "transfer_lock")

\* 2. SELECT quantity ... FOR UPDATE on the source row; both throws end in
\*    the catch block: ROLLBACK and 500
InventoryTransferLock(p) ==
  /\ tx[p].pc = "transfer_lock"
  /\ LET req == tx[p].req
         rows == RowsOf(Visible(p, "location_inventory"), req.inventory_id,
                        req.source_location_id)
     IN  IF rows = {} THEN Rollback(p, 500)
         ELSE /\ ~MustWait(p, "location_inventory", rows)
              /\ \E r \in rows :
                   IF r.quantity < req.quantity THEN Rollback(p, 500)
                   ELSE /\ db' = db
                        /\ tx' = [tx EXCEPT ![p] = [@ EXCEPT
                              !.locks = @ \cup LockKeys("location_inventory", rows),
                              !.pc = "transfer_sub"]]

\* 3. UPDATE ... SET quantity = quantity - $1 WHERE inventory_id AND location_id
InventoryTransferSub(p) ==
  /\ tx[p].pc = "transfer_sub"
  /\ LET req == tx[p].req
         rows == RowsOf(Visible(p, "location_inventory"), req.inventory_id,
                        req.source_location_id)
     IN  UpdateQuantity(p, rows, "add", 0 - req.quantity, "transfer_upsert", tx[p].i)

\* 4. INSERT ... ON CONFLICT DO UPDATE on the destination row
InventoryTransferUpsert(p) ==
  /\ tx[p].pc = "transfer_upsert"
  /\ LET req == tx[p].req
     IN  UpsertStock(p, req.inventory_id, req.destination_location_id,
                     req.quantity, "commit", tx[p].i)

(* -------------------- POST /api/barcode/checkin ----------------------- *)

BarcodeCheckinStart(p, req) ==
  /\ tx[p].pc = "idle"
  /\ Begin(p, req, "checkin_lock")

\* SELECT quantity ... FOR UPDATE; currentQty = rows[0]?.quantity ?? 0;
\* newQty = currentQty + qty; newQty < 0 is answered 400
BarcodeCheckinLock(p) ==
  /\ tx[p].pc = "checkin_lock"
  /\ LET req == tx[p].req
         rows == RowsOf(Visible(p, "location_inventory"), req.inventory_id, req.location_id)
     IN  /\ ~MustWait(p, "location_inventory", rows)
         /\ \E currentQty \in (IF rows = {} THEN {0} ELSE {r.quantity : r \in rows}) :
              IF currentQty + req.quantity < 0 THEN Rollback(p, 400)
              ELSE /\ db' = db
                   /\ tx' = [tx EXCEPT ![p] = [@ EXCEPT
                         !.locks = @ \cup LockKeys("location_inventory", rows),
                         !.rowCount = Cardinality(rows),
                         !.newQty = currentQty + req.quantity,
                         !.pc = "checkin_write"]]

\* rowCount > 0: UPDATE ... SET quantity = newQty; else INSERT (qty < 0: 400)
BarcodeCheckinWrite(p) ==
  /\ tx[p].pc = "checkin_write"
  /\ LET req == tx[p].req
         rows == RowsOf(Visible(p, "location_inventory"), req.inventory_id, req.location_id)
     IN  IF tx[p].rowCount > 0
           THEN UpdateQuantity(p, rows, "set", tx[p].newQty, "commit", tx[p].i)
         ELSE IF req.quantity < 0 THEN Rollback(p, 400)
         ELSE InsertStock(p, req.inventory_id, req.location_id, req.quantity,
                          "commit", tx[p].i)

(* -------------------------- POST /api/logs ---------------------------- *)

\* a row of another table that a foreign key of an inserted row points at is
\* share-locked by an open transaction other than p: a DELETE of it waits
SharedByOther(p, t, id) == \E q \in Procs \ {p} : <<t, id>> \in tx[q].shared

LogsPostStart(p, req) ==
  /\ tx[p].pc = "idle"
  /\ Begin(p, req, "logs_supply")

\* 1. SELECT cost_per_unit FROM supplies WHERE id = $1; no row: throw, 500
LogsPostSupply(p) ==
  /\ tx[p].pc = "logs_supply"
  /\ LET supplyRows == {r \in Visible(p, "supplies") : r.id = tx[p].req.supply_id}
     IN  IF supplyRows = {} THEN Rollback(p, 500)
         ELSE \E r \in supplyRows :
                /\ db' = db
                /\ tx' = [tx EXCEPT ![p] = [@ EXCEPT !.unitCost = r.cost_per_unit,
                                                     !.pc = "logs_op"]]

\* quantity ${action === 'use' ? '-' : '+'} $1
SignedQuantity(req) == IF req.action = "use" THEN 0 - req.quantity ELSE req.quantity

\* 2. UPDATE op_supplies SET quantity = quantity -/+ $1 WHERE op_id AND supply_id
LogsPostOp(p) ==
  /\ tx[p].pc = "logs_op"
  /\ LET req == tx[p].req
         rows == {r \in Visible(p, "op_supplies") :
                    r.op_id = req.op_id /\ r.supply_id = req.supply_id}
     IN  UpdateTable(p, "op_supplies", rows, "add", SignedQuantity(req),
                     "logs_global", tx[p].i)

\* 3. UPDATE supplies SET quantity = quantity -/+ $1 WHERE id = $2
LogsPostGlobal(p) ==
  /\ tx[p].pc = "logs_global"
  /\ LET req == tx[p].req
         rows == {r \in Visible(p, "supplies") : r.id = req.supply_id}
     IN  UpdateTable(p, "supplies", rows, "add", SignedQuantity(req),
                     "logs_insert", tx[p].i)

\* the foreign keys of supply_logs: the operatory and the supply exist
LogReferencesHold(p, req) ==
  /\ req.op_id \in Ids(Visible(p, "ops"))
  /\ req.supply_id \in Ids(Visible(p, "supplies"))

\* 4. INSERT INTO supply_logs (...) VALUES (...) RETURNING *
LogsPostInsert(p) ==
  /\ tx[p].pc = "logs_insert"
  /\ LET req == tx[p].req
         id == db.seq["supply_logs"] + 1
     IN  IF ~LogReferencesHold(p, req) THEN Rollback(p, 500)
         ELSE /\ db' = [db EXCEPT !.seq["supply_logs"] = id]
              /\ tx' = [tx EXCEPT ![p] = [@ EXCEPT
                    !.ws = [@ EXCEPT !["supply_logs"].ins = @ \cup
                       {[id |-> id, user_id |-> req.user_id, op_id |-> req.op_id,
                         supply_id |-> req.supply_id, quantity |-> req.quantity,
                         action |-> req.action, unit_cost |-> tx[p].unitCost,
                         total_cost |-> tx[p].unitCost * req.quantity]}],
                    !.shared = @ \cup {<<"ops", req.op_id>>},
                    !.pc = "commit"]]

(* ----------------------- POST /api/op-supplies ------------------------ *)

OpSuppliesAssignStart(p, req) ==
  /\ tx[p].pc = "idle"
  /\ IF req.quantity <= 0
       THEN Respond(p, req, 400)
       ELSE Begin(p, req, "assign_lock")

\* the same SELECT without FOR UPDATE: it neither waits nor locks
OpSuppliesAssignLockNoForUpdate(p) ==
  /\ tx[p].pc = "assign_lock"
  /\ LET req == tx[p].req
         rows == {r \in Visible(p, "supplies") : r.id = req.supply_id}
     IN  IF rows = {} THEN Rollback(p, 404)
         ELSE \E r \in rows :
                IF req.quantity > r.quantity THEN Rollback(p, 400)
                ELSE Goto(p, "assign_sub")

\* SELECT quantity FROM supplies WHERE id = $1 FOR UPDATE, and the checks
OpSuppliesAssignLock(p) ==
  /\ tx[p].pc = "assign_lock"
  /\ LET req == tx[p].req
         rows == {r \in Visible(p, "supplies") : r.id = req.supply_id}
     IN  IF rows = {} THEN Rollback(p, 404)
         ELSE /\ ~MustWait(p, "supplies", rows)
              /\ \E r \in rows :
                   IF req.quantity > r.quantity THEN Rollback(p, 400)
                   ELSE /\ db' = db
                        /\ tx' = [tx EXCEPT ![p] = [@ EXCEPT
                              !.locks = @ \cup LockKeys("supplies", rows),
                              !.pc = "assign_sub"]]

\* UPDATE supplies SET quantity = quantity - $1 WHERE id = $2
OpSuppliesAssignSub(p) ==
  /\ tx[p].pc = "assign_sub"
  /\ LET req == tx[p].req
         rows == {r \in Visible(p, "supplies") : r.id = req.supply_id}
     IN  UpdateTable(p, "supplies", rows, "add", 0 - req.quantity,
                     "assign_select", tx[p].i)

\* an assign that never looks for the existing row and always inserts
OpSuppliesAssignSelectSkipped(p) ==
  /\ tx[p].pc = "assign_select"
  /\ Goto(p, "assign_insert")

\* SELECT * FROM op_supplies WHERE op_id = $1 AND supply_id = $2
OpSuppliesAssignSelect(p) ==
  /\ tx[p].pc = "assign_select"
  /\ LET req == tx[p].req
         existing == {r \in Visible(p, "op_supplies") :
                        r.op_id = req.op_id /\ r.supply_id = req.supply_id}
     IN  Goto(p, IF existing # {} THEN "assign_update" ELSE "assign_insert")

\* UPDATE op_supplies SET quantity = quantity + $1 WHERE op_id AND supply_id
OpSuppliesAssignUpdate(p) ==
  /\ tx[p].pc = "assign_update"
  /\ LET req == tx[p].req
         rows == {r \in Visible(p, "op_supplies") :
                    r.op_id = req.op_id /\ r.supply_id = req.supply_id}
     IN  UpdateTable(p, "op_supplies", rows, "add", req.quantity, "commit", tx[p].i)

\* INSERT INTO op_supplies (op_id, supply_id, quantity) VALUES ($1, $2, $3);
\* an operatory that does not exist raises 23503: ROLLBACK and 500
OpSuppliesAssignInsert(p) ==
  /\ tx[p].pc = "assign_insert"
  /\ LET req == tx[p].req
         id == db.seq["op_supplies"] + 1
     IN  IF ~LogReferencesHold(p, req) THEN Rollback(p, 500)
         ELSE /\ db' = [db EXCEPT !.seq["op_supplies"] = id]
              /\ tx' = [tx EXCEPT ![p] = [@ EXCEPT
                    !.ws = [@ EXCEPT !["op_supplies"].ins = @ \cup
                       {[id |-> id, op_id |-> req.op_id, supply_id |-> req.supply_id,
                         quantity |-> req.quantity]}],
                    !.shared = @ \cup {<<"ops", req.op_id>>},
                    !.pc = "commit"]]

(* ------------------------ DELETE /api/ops/:id ------------------------- *)

\* the rows that reference operatory id through op_supplies_op_id_fkey and
\* supply_logs_op_id_fkey
OpReferences(id) ==
  [op_supplies |-> {r \in db.op_supplies : r.op_id = id},
   supply_logs |-> {r \in db.supply_logs : r.op_id = id}]

\* await pool.query('DELETE FROM ops WHERE id = $1'): one statement, on its
\* own; a row that still references the operatory raises 23503, answered 400
OpsDeleteCascades(p, req) ==
  /\ tx[p].pc = "idle"
  /\ ~SharedByOther(p, "ops", req.id)
  /\ db' = [db EXCEPT !.ops = {r \in @ : r.id # req.id},
                      !.op_supplies = {r \in @ : r.op_id # req.id},
                      !.supply_logs = {r \in @ : r.op_id # req.id}]
  /\ tx' = [tx EXCEPT ![p] = [@ EXCEPT !.pc = "done", !.req = req, !.status = 200]]

OpsDelete(p, req) ==
  /\ tx[p].pc = "idle"
  /\ ~SharedByOther(p, "ops", req.id)
  /\ IF OpReferences(req.id).op_supplies # {} \/ OpReferences(req.id).supply_logs # {}
       THEN Respond(p, req, 400)
       ELSE /\ db' = [db EXCEPT !.ops = {r \in @ : r.id # req.id}]
            /\ tx' = [tx EXCEPT ![p] = [@ EXCEPT !.pc = "done", !.req = req,
                                                 !.status = 200]]

(* ----------------------- the initial contents ------------------------- *)

\* the accounts
Users == {1, 2}

\* locations: the protected 'Common Area' of each account, and a room of account 1
InitLocations ==
  { [id |-> 1, name |-> "Common Area", user_id |-> 1, protected |-> TRUE],
    [id |-> 2, name |-> "Room A", user_id |-> 1, protected |-> FALSE],
    [id |-> 3, name |-> "Common Area", user_id |-> 2, protected |-> TRUE] }

\* the users rows of the accounts
InitUsers ==
  { [id |-> 1, email |-> "a@x"], [id |-> 2, email |-> "b@x"] }

\* inventory: item 1 of account 1, item 2 of account 2
InitInventory ==
  { [id |-> 1, name |-> "gauze", barcode |-> "b1", user_id |-> 1],
    [id |-> 2, name |-> "mask", barcode |-> "", user_id |-> 2] }

\* a stock row
StockRow(id, inventory_id, location_id, quantity) ==
  [id |-> id, inventory_id |-> inventory_id, location_id |-> location_id,
   quantity |-> quantity, low_stock_threshold |-> Null]

\* the stock of item 1: qa units in the Common Area (row 1), qb in Room A
\* (row 2); a quantity of -1 stands for 'no row'
InitStock(qa, qb) ==
  {StockRow(1, 1, 1, qa) : x \in (IF qa >= 0 THEN {1} ELSE {})}
    \cup {StockRow(2, 1, 2, qb) : x \in (IF qb >= 0 THEN {1} ELSE {})}

InitDb(stock) ==
  [inventory |-> InitInventory, location_inventory |-> stock,
   supplies |-> {}, op_supplies |-> {}, supply_logs |-> {}, ops |-> {},
   locations |-> InitLocations, users |-> InitUsers,
   seq |-> [t \in Tables |-> 3]]

(* ---------------------------- requests -------------------------------- *)

\* an entry of the supplies array of a batch
Entry(isNew, inventory_id, name, barcode, quantity) ==
  [isNew |-> isNew, inventory_id |-> inventory_id, name |-> name,
   barcode |-> barcode, quantity |-> quantity]

ConsumeEntries ==
  {Entry(FALSE, 1, "", "", q) : q \in 0..MaxQty} \cup {Entry(FALSE, 2, "", "", 1)}

\* the entries of a batch consume: item 1 with a quantity of 0 (skipped), of
\* 1 and of MaxQty, and the item of another account
BatchConsumeEntries ==
  {Entry(FALSE, 1, "", "", q) : q \in {0, 1, MaxQty}} \cup {Entry(FALSE, 2, "", "", 1)}

InventoryConsumeRequests ==
  {[kind |-> "inventory_consume", user |-> 1, location |-> l, supplies |-> <<e>>] :
      l \in {0, 2}, e \in ConsumeEntries}

BarcodeConsumeRequests ==
  {[kind |-> "barcode_consume", user |-> 1, inventory_id |-> i, location_id |-> 2,
    quantity |-> q] : i \in {1, 2}, q \in 0..MaxQty}

\* the entries of a batch add: item 1 with a quantity (0: skipped), the
\* item of another account, a new entry whose name matches item 1, a new
\* item, and a new item whose barcode is the one of item 1
AddEntries ==
  {Entry(FALSE, 1, "", "", q) : q \in {0, 1, MaxQty}}
    \cup { Entry(FALSE, 2, "", "", 1), Entry(TRUE, 0, "Gauze", "", 1),
           Entry(TRUE, 0, "floss", "b2", 1), Entry(TRUE, 0, "wax", "b1", 1) }

\* the batches of at most MaxBatch entries
Batches(entries) == UNION {[1..n -> entries] : n \in 1..MaxBatch}

AddRequest(destination, location, supplies) ==
  [kind |-> "inventory_add", user |-> 1, destination |-> destination,
   location |-> location, supplies |-> supplies]

\* destination 'common_area', 'location' without a location, 'transfer'
InventoryAddRequests ==
  {AddRequest(d[1], d[2], b) :
      d \in {<<"common_area", 0>>, <<"location", 0>>, <<"transfer", 2>>},
      b \in Batches(AddEntries)}

InventoryConsumeBatchRequests ==
  {[kind |-> "inventory_consume", user |-> 1, location |-> 2, supplies |-> b] :
      b \in Batches(BatchConsumeEntries)}

TransferRequest(inventory_id, source, destination, quantity) ==
  [kind |-> "inventory_transfer", user |-> 1, inventory_id |-> inventory_id,
   source_location_id |-> source, destination_location_id |-> destination,
   quantity |-> quantity]

\* transfers of item 1 between the Common Area and Room A (also onto the
\* source itself, and of a negative quantity), one without a quantity, one
\* of the item of another account
InventoryTransferRequests ==
  {TransferRequest(1, a, b, q) : a \in {1, 2}, b \in {1, 2}, q \in {-1} \cup 1..MaxQty}
    \cup {TransferRequest(1, 1, 2, 0), TransferRequest(2, 1, 2, 1)}

CheckinRequest(inventory_id, location_id, quantity) ==
  [kind |-> "barcode_checkin", user |-> 1, inventory_id |-> inventory_id,
   location_id |-> location_id, quantity |-> quantity]

BarcodeCheckinRequests == {CheckinRequest(1, 2, q) : q \in -1..MaxQty}

PutRequest(id, barcode, location_id, quantity) ==
  [kind |-> "inventory_put", user |-> 1, id |-> id, name |-> "gauze",
   barcode |-> barcode, location_id |-> location_id, quantity |-> quantity]

CreateRequest(name, barcode, location_id, quantity) ==
  [kind |-> "barcode_create", user |-> 1, user_id |-> 1, name |-> name,
   barcode |-> barcode, location_id |-> location_id, quantity |-> quantity]

ScanConsumeRequest(inventory_id, location_id, quantity) ==
  [kind |-> "barcode_consume", user |-> 1, inventory_id |-> inventory_id,
   location_id |-> location_id, quantity |-> quantity]

(* ------------- two concurrent consumes of one stock row --------------- *)

InitConsume ==
  /\ \E qb \in -1..MaxQty : db = InitDb(InitStock(1, qb))
  /\ tx = [p \in Procs |-> IdleTx]
  /\ db0 = db

NextConsume ==
  \E p \in Procs :
    \/ \E req \in InventoryConsumeRequests : InventoryConsumeStart(p, req) /\ UNCHANGED db0
    \/ InventoryConsumeItem(p) /\ UNCHANGED db0
    \/ InventoryConsumeLock(p) /\ UNCHANGED db0
    \/ InventoryConsumeSub(p) /\ UNCHANGED db0
    \/ \E req \in BarcodeConsumeRequests : BarcodeConsumeStart(p, req) /\ UNCHANGED db0
    \/ BarcodeConsumeOwner(p) /\ UNCHANGED db0
    \/ BarcodeConsumeLock(p) /\ UNCHANGED db0
    \/ BarcodeConsumeSub(p) /\ UNCHANGED db0
    \/ CommitTx(p) /\ UNCHANGED db0

SpecConsume == InitConsume /\ [][NextConsume]_vars

\* the quantity a consume request takes from the row of item 1 in Room A;
\* 0 when it is no consume of that row
RoomAConsumeQty(req) ==
  IF req.kind = "inventory_consume"
    THEN IF req.location = 2 /\ req.supplies[1].inventory_id = 1
           THEN req.supplies[1].quantity ELSE 0
  ELSE IF req.kind = "barcode_consume"
    THEN IF req.location_id = 2 /\ req.inventory_id = 1 THEN req.quantity ELSE 0
  ELSE 0

\* both slots have answered two consumes of the row that holds n, each within
\* n and together above n
ConsumeRaceOver(n) ==
  /\ RowsOf(db0.location_inventory, 1, 2) = {StockRow(2, 1, 2, n)}
  /\ \A p \in Procs : tx[p].pc = "done" /\ RoomAConsumeQty(tx[p].req) \in 1..n
  /\ RoomAConsumeQty(tx[1].req) + RoomAConsumeQty(tx[2].req) > n

\* C1: of two concurrent consumes of one stock row holding n, each asking for
\* at most n and together for more than n, exactly one commits (200), the
\* other is rejected for insufficient quantity (400), and the row is left
\* with n minus the quantity of the one that committed.
C1_ExactlyOneConsumeCommits ==
  \A n \in 1..MaxQty :
    ConsumeRaceOver(n) =>
      \E w \in Procs : \E l \in Procs \ {w} :
        /\ tx[w].status = 200
        /\ tx[l].status = 400
        /\ RowsOf(db.location_inventory, 1, 2) =
             {StockRow(2, 1, 2, n - RoomAConsumeQty(tx[w].req))}

\* C1 witness: such a race has been run, by one consume of each route
C1_Witness ==
  /\ ConsumeRaceOver(MaxQty)
  /\ tx[1].req.kind = "inventory_consume"
  /\ tx[2].req.kind = "barcode_consume"
  /\ tx[1].status = 400
  /\ tx[2].status = 200

(* ------------------------- the handlers ------------------------------- *)

InventoryAdd(p) ==
  \/ InventoryAddItem(p)
  \/ InventoryAddBarcode(p)
  \/ InventoryAddInsertInventory(p)
  \/ InventoryAddFrom(p)
  \/ InventoryAddSub(p)
  \/ InventoryAddSelect(p)
  \/ InventoryAddUpdate(p)
  \/ InventoryAddInsert(p)

InventoryConsume(p) ==
  \/ InventoryConsumeItem(p)
  \/ InventoryConsumeLock(p)
  \/ InventoryConsumeSub(p)

InventoryTransfer(p) ==
  \/ InventoryTransferOwner(p)
  \/ InventoryTransferLock(p)
  \/ InventoryTransferSub(p)
  \/ InventoryTransferUpsert(p)

InventoryPut(p) ==
  \/ InventoryPutOwner(p)
  \/ InventoryPutBarcode(p)
  \/ InventoryPutUpdateInventory(p)
  \/ InventoryPutSelect(p)
  \/ InventoryPutWrite(p)

BarcodeCheckin(p) ==
  \/ BarcodeCheckinLock(p)
  \/ BarcodeCheckinWrite(p)

BarcodeConsume(p) ==
  \/ BarcodeConsumeOwner(p)
  \/ BarcodeConsumeLock(p)
  \/ BarcodeConsumeSub(p)

BarcodeCreate(p) ==
  \/ BarcodeCreateInventory(p)
  \/ BarcodeCreateStock(p)

(* ---------------- the ledger: two single movements ------------------- *)

\* both slots serve one transfer, scan check-in or scan consume
Init ==
  /\ \E qa \in {0, MaxQty} : \E qb \in {-1, 1} : db = InitDb(InitStock(qa, qb))
  /\ tx = [p \in Procs |-> IdleTx]
  /\ db0 = db

Next ==
  /\ UNCHANGED db0
  /\ \E p \in Procs :
       \/ \E req \in InventoryTransferRequests : InventoryTransferStart(p, req)
       \/ \E req \in BarcodeCheckinRequests : BarcodeCheckinStart(p, req)
       \/ \E req \in BarcodeConsumeRequests : BarcodeConsumeStart(p, req)
       \/ InventoryTransfer(p)
       \/ BarcodeCheckin(p)
       \/ BarcodeConsume(p)
       \/ CommitTx(p)
       \/ StoreFailure(p)

Spec == Init /\ [][Next]_vars

(* ------------- a batch beside a single scan movement ------------------ *)

\* slot 1 serves a batch add or a batch consume, slot 2 a scan check-in or
\* a scan consume of one unit of item 1 in Room A
InitBatch ==
  /\ \E qb \in {-1, 1} : db = InitDb(InitStock(1, qb))
  /\ tx = [p \in Procs |-> IdleTx]
  /\ db0 = db

NextBatch ==
  /\ UNCHANGED db0
  /\ \/ \E req \in InventoryAddRequests : InventoryAddStart(1, req)
     \/ \E req \in InventoryConsumeBatchRequests : InventoryConsumeStart(1, req)
     \/ BarcodeCheckinStart(2, CheckinRequest(1, 2, 1))
     \/ BarcodeConsumeStart(2, ScanConsumeRequest(1, 2, 1))
     \/ \E p \in Procs :
          \/ InventoryAdd(p)
          \/ InventoryConsume(p)
          \/ BarcodeCheckin(p)
          \/ BarcodeConsume(p)
          \/ CommitTx(p)
          \/ StoreFailure(p)

SpecBatch == InitBatch /\ [][NextBatch]_vars

(* ------------- two requests that can create a stock row --------------- *)

\* one-entry batch adds to every destination, item updates, transfers,
\* scan creates and scan check-ins, all of positive quantities
CreateAddRequests ==
  {AddRequest(d[1], d[2], <<e>>) :
      d \in {<<"common_area", 0>>, <<"location", 2>>, <<"transfer", 2>>},
      e \in {Entry(FALSE, 1, "", "", 1), Entry(TRUE, 0, "Gauze", "", 1),
             Entry(TRUE, 0, "floss", "b2", 1)}}

CreatePutRequests == {PutRequest(1, "b1", 2, q) : q \in 0..MaxQty} \cup {PutRequest(2, "", 2, 1)}

CreateTransferRequests == {TransferRequest(1, 1, 2, q) : q \in 1..MaxQty}

CreateScanRequests == {CreateRequest("floss", b, 2, 1) : b \in {"b1", "b2"}}

CreateCheckinRequests == {CheckinRequest(1, 2, q) : q \in 1..MaxQty}

InitCreate ==
  /\ \E qa \in {-1, 1, MaxQty} : \E qb \in {-1, 0} : db = InitDb(InitStock(qa, qb))
  /\ tx = [p \in Procs |-> IdleTx]
  /\ db0 = db

NextCreate ==
  /\ UNCHANGED db0
  /\ \E p \in Procs :
       \/ \E req \in CreateAddRequests : InventoryAddStart(p, req)
       \/ \E req \in CreatePutRequests : InventoryPutStart(p, req)
       \/ \E req \in CreateTransferRequests : InventoryTransferStart(p, req)
       \/ \E req \in CreateScanRequests : BarcodeCreateStart(p, req)
       \/ \E req \in CreateCheckinRequests : BarcodeCheckinStart(p, req)
       \/ InventoryAdd(p)
       \/ InventoryPut(p)
       \/ InventoryTransfer(p)
       \/ BarcodeCreate(p)
       \/ BarcodeCheckin(p)
       \/ CommitTx(p)

SpecCreate == InitCreate /\ [][NextCreate]_vars

\* C2: no committed stock row has a quantity below 0, whatever the sequence
\* and interleaving of the receive, consume and transfer requests.
C2_NoNegativeQuantity ==
  \A r \in db.location_inventory : r.quantity >= 0

(* ------------------------ POST /inventory/transfer -------------------- *)

\* the quantity a store holds of item inventory_id at location_id: the sum
\* over the rows of the pair, 0 when there is none
RECURSIVE SumQuantity(_)
SumQuantity(S) ==
  IF S = {} THEN 0
  ELSE LET r == CHOOSE x \in S : TRUE IN r.quantity + SumQuantity(S \ {r})

QuantityAt(stock, inventory_id, location_id) ==
  SumQuantity(RowsOf(stock, inventory_id, location_id))

\* slot p ends request kind with a COMMIT in this step
Commits(p, kind) ==
  /\ tx[p].pc = "commit"
  /\ tx[p].req.kind = kind
  /\ tx'[p].pc = "done"
  /\ tx'[p].status = 200

\* C3: every transfer of q units of an item from A to B that succeeds takes
\* exactly q from the row of A, gives exactly q to the row of B (which exists
\* afterwards), and changes no other stock row.
C3_TransferMovesExactly ==
  [][\A p \in Procs : Commits(p, "inventory_transfer") =>
       LET req == tx[p].req
           A == req.source_location_id
           B == req.destination_location_id
           before == db.location_inventory
           after == db'.location_inventory
       IN  /\ QuantityAt(after, req.inventory_id, A)
                = QuantityAt(before, req.inventory_id, A) - req.quantity
           /\ QuantityAt(after, req.inventory_id, B)
                = QuantityAt(before, req.inventory_id, B) + req.quantity
           /\ RowsOf(after, req.inventory_id, B) # {}
           /\ \A r \in before \cup after :
                (r.inventory_id # req.inventory_id \/ r.location_id \notin {A, B})
                   => (r \in before /\ r \in after)]_vars

(* ------------------------- concurrent receives ------------------------ *)

\* request req receives units of item 1 into Room A: a batch add of the one
\* entry to that location, or a scan check-in
ReceivesInRoomA(req) ==
  \/ /\ req.kind = "inventory_add"
     /\ req.destination = "location"
     /\ req.location = 2
     /\ req.supplies = <<Entry(FALSE, 1, "", "", 1)>>
  \/ /\ req.kind = "barcode_checkin"
     /\ req.inventory_id = 1
     /\ req.location_id = 2

ReceivedQty(req) ==
  IF req.kind = "inventory_add" THEN req.supplies[1].quantity ELSE req.quantity

\* both slots have served a receive into Room A, which held no row of item 1
\* when they started
ReceiveRaceOver ==
  /\ RowsOf(db0.location_inventory, 1, 2) = {}
  /\ \A p \in Procs : tx[p].pc = "done" /\ ReceivesInRoomA(tx[p].req)

\* C4: two concurrent receives of d1 and d2 units for a pair that has no row
\* both succeed and leave exactly one row, holding d1 + d2.
C4_ConcurrentReceivesBothSucceed ==
  ReceiveRaceOver =>
    /\ \A p \in Procs : tx[p].status = 200
    /\ \E id \in Ids(db.location_inventory) :
         RowsOf(db.location_inventory, 1, 2) =
           {StockRow(id, 1, 2, ReceivedQty(tx[1].req) + ReceivedQty(tx[2].req))}

\* C5: in every reachable state there is at most one stock row for an item
\* and a location, whatever the interleaving of the requests that can create
\* one (batch add, item update, transfer, scan create, scan check-in).
C5_OneRowPerItemAndLocation ==
  \A r1 \in db.location_inventory : \A r2 \in db.location_inventory :
    (r1.inventory_id = r2.inventory_id /\ r1.location_id = r2.location_id)
       => r1 = r2

\* C5 witness: two requests raced to create the row of item 1 in Room A; the
\* insert of one of them was refused and one row exists
C5_Witness ==
  /\ ReceiveRaceOver
  /\ \E p \in Procs : tx[p].status = 500
  /\ Cardinality(RowsOf(db.location_inventory, 1, 2)) = 1

(* ------------------------------ batches ------------------------------- *)

IsBatch(req) == req.kind \in {"inventory_add", "inventory_consume"}

\* the rows of every table of the committed store
Contents(d) == [t \in Tables |-> d[t]]

\* C6: a batch add or batch consume changes the committed store in no step
\* but its successful COMMIT: when an entry fails (item not owned, row not
\* found, insufficient quantity, barcode collision, no target location,
\* store error) the store after the request is the store before it.
C6_FailedBatchLeavesStore ==
  [][(/\ tx'[1] # tx[1]
      /\ IsBatch(tx'[1].req)
      /\ ~(tx'[1].pc = "done" /\ tx'[1].status = 200))
        => Contents(db') = Contents(db)]_vars

\* C6 witness: a batch whose first entry was applied and whose second entry
\* failed (its barcode is the one of item 1) has been answered 400, and the
\* store is the one the request found
C6_Witness ==
  /\ tx[1].pc = "done"
  /\ tx[1].req = AddRequest("common_area", 0,
                    <<Entry(FALSE, 1, "", "", 1), Entry(TRUE, 0, "wax", "b1", 1)>>)
  /\ tx[1].status = 400
  /\ tx[2].pc = "idle"
  /\ Contents(db) = Contents(db0)

\* an entry the validation has to refuse: a quantity of 0 or less, or no
\* item identifier (no inventory_id, and for a new item no name)
InvalidEntry(e) ==
  \/ e.quantity <= 0
  \/ ~e.isNew /\ e.inventory_id = 0
  \/ e.isNew /\ e.name = ""

\* C7: a batch that holds an entry with a quantity of 0 or less, or without
\* an item identifier, is rejected as a whole (it is not answered 200) and
\* none of its entries is applied.
C7_InvalidEntryRejectsBatch ==
  (/\ tx[1].pc = "done"
   /\ IsBatch(tx[1].req)
   /\ tx[2].pc = "idle"
   /\ \E k \in DOMAIN tx[1].req.supplies : InvalidEntry(tx[1].req.supplies[k]))
     => (tx[1].status # 200 /\ Contents(db) = Contents(db0))

(* ------------------- operatories, supplies and the log ---------------- *)

LogsPost(p) ==
  \/ LogsPostSupply(p)
  \/ LogsPostOp(p)
  \/ LogsPostGlobal(p)
  \/ LogsPostInsert(p)

OpSuppliesAssign(p) ==
  \/ OpSuppliesAssignLock(p)
  \/ OpSuppliesAssignSub(p)
  \/ OpSuppliesAssignSelect(p)
  \/ OpSuppliesAssignUpdate(p)
  \/ OpSuppliesAssignInsert(p)

\* operatory 1 of account 1, supply 1 with qs units unassigned at a cost of
\* 2 per unit, and qo units of it assigned to the operatory (-1: no row)
InitLogsDb(qs, qo) ==
  [InitDb(InitStock(1, 1)) EXCEPT
     !.ops = {[id |-> 1, user_id |-> 1]},
     !.supplies = {[id |-> 1, user_id |-> 1, quantity |-> qs, cost_per_unit |-> 2]},
     !.op_supplies = {[id |-> 1, op_id |-> 1, supply_id |-> 1, quantity |-> qo] :
                        x \in (IF qo >= 0 THEN {1} ELSE {})}]

LogRequest(op_id, supply_id, quantity, action) ==
  [kind |-> "logs_post", user |-> 1, user_id |-> 1, op_id |-> op_id,
   supply_id |-> supply_id, quantity |-> quantity, action |-> action]

\* uses and restocks of supply 1 in operatory 1, and a use of a supply that
\* does not exist
LogRequests ==
  {LogRequest(1, 1, q, a) : q \in 1..MaxQty, a \in {"use", "restock"}}
    \cup {LogRequest(1, 9, 1, "use")}

AssignRequest(op_id, supply_id, quantity) ==
  [kind |-> "op_supplies_assign", user |-> 1, op_id |-> op_id,
   supply_id |-> supply_id, quantity |-> quantity]

AssignRequests ==
  {AssignRequest(1, 1, q) : q \in 0..MaxQty} \cup {AssignRequest(1, 9, 1)}

OpsDeleteRequest(id) == [kind |-> "ops_delete", user |-> 1, id |-> id]

InitLogs ==
  /\ \E qs \in {0, MaxQty} : \E qo \in {-1, 1} : db = InitLogsDb(qs, qo)
  /\ tx = [p \in Procs |-> IdleTx]
  /\ db0 = db

\* both slots serve one POST /logs, assignment, operatory deletion or scan
\* consume of one unit of item 1 in Room A
NextLogs ==
  /\ UNCHANGED db0
  /\ \E p \in Procs :
       \/ \E req \in LogRequests : LogsPostStart(p, req)
       \/ \E req \in AssignRequests : OpSuppliesAssignStart(p, req)
       \/ OpsDelete(p, OpsDeleteRequest(1))
       \/ BarcodeConsumeStart(p, ScanConsumeRequest(1, 2, 1))
       \/ LogsPost(p)
       \/ OpSuppliesAssign(p)
       \/ BarcodeConsume(p)
       \/ CommitTx(p)
       \/ StoreFailure(p)

SpecLogs == InitLogs /\ [][NextLogs]_vars

\* the tables that hold stock quantities
StockTables == {"location_inventory", "op_supplies", "supplies"}

\* C8: every movement that commits a change of a stock quantity appends
\* exactly one log entry in the same transaction.
C8_OneLogEntryPerMovement ==
  [][(\E t \in StockTables : db'[t] # db[t])
       => Cardinality(db'.supply_logs \ db.supply_logs) = 1]_vars

\* C9: every log entry that POST /logs commits with quantity q for an
\* operatory and a supply goes with a change of exactly q, in the logged
\* direction, of the op_supplies row of that operatory and supply.
C9_LogEntryMatchesOpSupply ==
  [][\A p \in Procs : Commits(p, "logs_post") =>
       LET req == tx[p].req
           rowsBefore == {r \in db.op_supplies :
                            r.op_id = req.op_id /\ r.supply_id = req.supply_id}
       IN  /\ rowsBefore # {}
           /\ \A r \in rowsBefore :
                [r EXCEPT !.quantity = @ + SignedQuantity(req)] \in db'.op_supplies]_vars

InitOwnerDb ==
  [InitDb(InitStock(1, 1) \cup {StockRow(3, 2, 3, 1)}) EXCEPT
     !.ops = {[id |-> 1, user_id |-> 1]},
     !.supplies = {[id |-> 2, user_id |-> 2, quantity |-> 1, cost_per_unit |-> 2]}]

ConsumeRequest(location, supplies) ==
  [kind |-> "inventory_consume", user |-> 1, location |-> location,
   supplies |-> supplies]

\* the requests of account 1 that name item 2 or supply 2
ForeignItemRequests ==
  { TransferRequest(2, 3, 1, 1), CheckinRequest(2, 3, 1),
    ScanConsumeRequest(2, 3, 1), PutRequest(2, "", 3, MaxQty),
    AddRequest("location", 3, <<Entry(FALSE, 2, "", "", 1)>>),
    ConsumeRequest(3, <<Entry(FALSE, 2, "", "", 1)>>),
    AssignRequest(1, 2, 1) }

\* the requests of account 1 that name its item 1 and location 3
ForeignLocationRequests ==
  { TransferRequest(1, 1, 3, 1), CheckinRequest(1, 3, 1),
    PutRequest(1, "b1", 3, MaxQty),
    AddRequest("location", 3, <<Entry(FALSE, 1, "", "", 1)>>) }

StartRequest(p, req) ==
  \/ req.kind = "inventory_add" /\ InventoryAddStart(p, req)
  \/ req.kind = "inventory_consume" /\ InventoryConsumeStart(p, req)
  \/ req.kind = "inventory_transfer" /\ InventoryTransferStart(p, req)
  \/ req.kind = "inventory_put" /\ InventoryPutStart(p, req)
  \/ req.kind = "barcode_checkin" /\ BarcodeCheckinStart(p, req)
  \/ req.kind = "barcode_consume" /\ BarcodeConsumeStart(p, req)
  \/ req.kind = "op_supplies_assign" /\ OpSuppliesAssignStart(p, req)

InitOwner ==
  /\ db = InitOwnerDb
  /\ tx = [p \in Procs |-> IdleTx]
  /\ db0 = db

NextOwner ==
  /\ UNCHANGED db0
  /\ \E p \in Procs :
       \/ \E req \in ForeignItemRequests \cup ForeignLocationRequests :
            StartRequest(p, req)
       \/ InventoryAdd(p)
       \/ InventoryConsume(p)
       \/ InventoryTransfer(p)
       \/ InventoryPut(p)
       \/ BarcodeCheckin(p)
       \/ BarcodeConsume(p)
       \/ OpSuppliesAssign(p)
       \/ CommitTx(p)
       \/ StoreFailure(p)

SpecOwner == InitOwner /\ [][NextOwner]_vars

\* the account that owns item inventory_id in store d (0: no such item)
ItemOwner(d, inventory_id) ==
  IF \E r \in d.inventory : r.id = inventory_id
    THEN (CHOOSE r \in d.inventory : r.id = inventory_id).user_id
    ELSE 0

LocationOwner(d, location_id) ==
  IF \E r \in d.locations : r.id = location_id
    THEN (CHOOSE r \in d.locations : r.id = location_id).user_id
    ELSE 0

\* the stock of the accounts other than account a: the rows of their items
\* and their supplies
StockOfOthers(d, a) ==
  [location_inventory |->
     {r \in d.location_inventory : ItemOwner(d, r.inventory_id) # a},
   supplies |-> {r \in d.supplies : r.user_id # a}]

\* C11: no request of account 1 changes a stock row of an item (or the
\* quantity of a supply) owned by another account: a request that names one
\* is rejected without any state change.
C11_OtherAccountsUntouched ==
  /\ StockOfOthers(db, 1) = StockOfOthers(db0, 1)
  /\ \A p \in Procs :
       (tx[p].pc = "done" /\ tx[p].req \in ForeignItemRequests)
          => tx[p].status # 200

\* C12: every stock row references an item and a location of one account,
\* whatever batch adds, transfers, batch consumes and item updates have run.
C12_RowWithinOneAccount ==
  (\A p \in Procs : tx[p].req.kind \in {"none", "inventory_add", "inventory_transfer",
                                        "inventory_consume", "inventory_put"})
    => \A r \in db.location_inventory :
         /\ ItemOwner(db, r.inventory_id) # 0
         /\ ItemOwner(db, r.inventory_id) = LocationOwner(db, r.location_id)

(* ----------------------- decrementing movements ----------------------- *)

\* slot p serves a transfer or a scan consume of a positive quantity of an
\* item of its account and answers it in this step
EndsDecrement(p) ==
  /\ tx[p].pc \notin {"idle", "done"}
  /\ tx'[p].pc = "done"
  /\ tx[p].req.kind \in {"inventory_transfer", "barcode_consume"}
  /\ tx[p].req.quantity > 0
  /\ ItemOwner(db, tx[p].req.inventory_id) = tx[p].req.user

\* the location a decrementing request takes the units from
SourceOf(req) ==
  IF req.kind = "inventory_transfer" THEN req.source_location_id ELSE req.location_id

\* C13: a transfer or consume whose source row is absent or holds less than
\* the requested quantity fails and leaves every stock row as it was; one
\* that succeeds found at least the requested quantity in the source row and
\* leaves that row with exactly that quantity less.
C13_DecrementExactOrNothing ==
  [][\A p \in Procs : EndsDecrement(p) =>
       LET req == tx[p].req
           before == RowsOf(db.location_inventory, req.inventory_id, SourceOf(req))
           after == RowsOf(db'.location_inventory, req.inventory_id, SourceOf(req))
       IN  IF tx'[p].status = 200
             THEN \E r \in before :
                    /\ r.quantity >= req.quantity
                    /\ after = {[r EXCEPT !.quantity = @ - req.quantity]}
             ELSE db'.location_inventory = db.location_inventory]_vars

\* C14: a transfer whose source location is its destination location is
\* rejected.
C14_TransferOntoSourceRejected ==
  \A p \in Procs :
    (/\ tx[p].pc = "done"
     /\ tx[p].req.kind = "inventory_transfer"
     /\ tx[p].req.source_location_id = tx[p].req.destination_location_id)
       => tx[p].status # 200

(* ------------------- opposite-direction transfers --------------------- *)

\* the transfer (of a positive quantity) of slot p holds the lock of its
\* source row and its next statement, the upsert of the destination row, waits for a row lock of q
TransferWaitsFor(p, q) ==
  /\ tx[p].pc = "transfer_upsert"
  /\ LET req == tx[p].req
     IN  /\ req.quantity > 0
         /\ \E r \in RowsOf(db.location_inventory, req.inventory_id,
                            req.source_location_id) :
              <<"location_inventory", r.id>> \in tx[p].locks
         /\ \E r \in RowsOf(db.location_inventory, req.inventory_id,
                            req.destination_location_id) :
              <<"location_inventory", r.id>> \in tx[q].locks

\* C15: two concurrent transfers never reach a state in which each holds
\* the lock of one row and waits for the lock the other holds.
C15_NoTransferDeadlock ==
  \A p \in Procs : \A q \in Procs \ {p} :
    ~(TransferWaitsFor(p, q) /\ TransferWaitsFor(q, p))

(* ----------------------- concurrent assignments ----------------------- *)

InitAssign ==
  /\ \E qs \in {1, MaxQty} : \E qo \in {-1, 1} : db = InitLogsDb(qs, qo)
  /\ tx = [p \in Procs |-> IdleTx]
  /\ db0 = db

\* both slots serve one assignment of supply 1 (or of a supply that does
\* not exist) to operatory 1
NextAssign ==
  /\ UNCHANGED db0
  /\ \E p \in Procs :
       \/ \E req \in AssignRequests : OpSuppliesAssignStart(p, req)
       \/ OpSuppliesAssign(p)
       \/ CommitTx(p)
       \/ StoreFailure(p)

SpecAssign == InitAssign /\ [][NextAssign]_vars

\* the op_supplies rows of operatory op_id and supply supply_id in store d
AssignedRows(d, op_id, supply_id) ==
  {r \in d.op_supplies : r.op_id = op_id /\ r.supply_id = supply_id}

\* the quantity of supply_id assigned to op_id in store d
Assigned(d, op_id, supply_id) == SumQuantity(AssignedRows(d, op_id, supply_id))

\* the unassigned quantity of supply_id in store d
Unassigned(d, supply_id) == SumQuantity({r \in d.supplies : r.id = supply_id})

\* the quantity that the assign of slot p has added to operatory 1, supply 1
AssignedBy(p) ==
  IF /\ tx[p].pc = "done"
     /\ tx[p].status = 200
     /\ tx[p].req.op_id = 1
     /\ tx[p].req.supply_id = 1
    THEN tx[p].req.quantity
    ELSE 0

\* C16: whatever the interleaving of the assigns, an operatory has at most
\* one op_supplies row per supply, and its quantity is what it was plus the
\* quantities of the assigns of the pair that succeeded.
C16_OneAssignmentRowWithTheSum ==
  /\ \A r1 \in db.op_supplies : \A r2 \in db.op_supplies :
       (r1.op_id = r2.op_id /\ r1.supply_id = r2.supply_id) => r1 = r2
  /\ Assigned(db, 1, 1) = Assigned(db0, 1, 1) + AssignedBy(1) + AssignedBy(2)

\* C16 witness: two assigns to an operatory that had no row of the supply
\* have succeeded, the first by INSERT, the second by UPDATE of that row
C16_Witness ==
  /\ AssignedRows(db0, 1, 1) = {}
  /\ \A p \in Procs : tx[p].pc = "done" /\ tx[p].status = 200 /\ AssignedBy(p) = 1
  /\ \E r \in db.op_supplies : r.quantity = 2

\* C17: an assign of q > 0 units passes its check iff the supply exists and
\* q is at most the unassigned quantity; its COMMIT takes q from the
\* unassigned quantity and gives q to the operatory; an assign that fails
\* changes nothing; and the unassigned quantity never goes below 0.
C17_AssignMovesFromUnassigned ==
  [][/\ \A r \in db'.supplies : r.quantity >= 0
     /\ \A p \in Procs :
          LET req == tx[p].req
          IN  /\ (tx[p].pc = "assign_lock" /\ tx'[p] # tx[p] /\ tx'[p].status # 500)
                   => (tx'[p].pc = "assign_sub"
                         <=> /\ \E r \in db.supplies : r.id = req.supply_id
                             /\ req.quantity <= Unassigned(db, req.supply_id))
              /\ Commits(p, "op_supplies_assign")
                   => /\ Unassigned(db', req.supply_id)
                           = Unassigned(db, req.supply_id) - req.quantity
                      /\ Assigned(db', req.op_id, req.supply_id)
                           = Assigned(db, req.op_id, req.supply_id) + req.quantity
              /\ (tx'[p] # tx[p] /\ tx'[p].req.kind = "op_supplies_assign"
                    /\ ~(tx'[p].pc = "done" /\ tx'[p].status = 200))
                   => Contents(db') = Contents(db)]_vars

\* C17 witness: two assigns of all the unassigned units raced; one committed
\* and left 0 unassigned, the other was answered 400
C17_Witness ==
  /\ Unassigned(db0, 1) = MaxQty
  /\ \A p \in Procs : tx[p].pc = "done" /\ tx[p].req = AssignRequest(1, 1, MaxQty)
  /\ \E p \in Procs : tx[p].status = 200
  /\ \E p \in Procs : tx[p].status = 400
  /\ Unassigned(db, 1) = 0

(* ------------------------- uses through the log ----------------------- *)

\* C18: whatever assigns and POST /logs requests have run, no op_supplies
\* row and no supplies row holds a quantity below 0 (a use of more than the
\* operatory holds, or of a supply it holds no row of, is rejected).
C18_UseKeepsQuantitiesNonNegative ==
  /\ \A r \in db.op_supplies : r.quantity >= 0
  /\ \A r \in db.supplies : r.quantity >= 0

(* --------------------- PATCH /api/op-supplies/:id --------------------- *)

\* pool.query('UPDATE op_supplies SET quantity = $1 WHERE id = $2 RETURNING *'):
\* one statement on its own, which waits for the lock of the row; the
\* response is result.rows[0], with status 200 also when no row matched
OpSuppliesPatch(p, req) ==
  /\ tx[p].pc = "idle"
  /\ ~LockedByOther(p, "op_supplies", req.id)
  /\ db' = [db EXCEPT !.op_supplies =
              {IF r.id = req.id THEN [r EXCEPT !.quantity = req.quantity] ELSE r : r \in @}]
  /\ tx' = [tx EXCEPT ![p] = [@ EXCEPT !.pc = "done", !.req = req, !.status = 200]]

PatchRequest(id, quantity) ==
  [kind |-> "op_supplies_patch", user |-> 1, id |-> id, quantity |-> quantity]

(* ---------------- the writes of an absolute quantity ------------------ *)

\* item updates, scan creates and op_supplies updates that carry a quantity
\* from -1 to MaxQty
CorrectingRequests ==
  {PutRequest(1, "b1", 2, q) : q \in -1..MaxQty}
    \cup {CreateRequest("floss", "b2", 2, q) : q \in -1..MaxQty}
    \cup {PatchRequest(1, q) : q \in -1..MaxQty}

InitCorrect ==
  /\ \E qb \in {-1, 1} :
       db = [InitLogsDb(1, 1) EXCEPT !.location_inventory = InitStock(1, qb)]
  /\ tx = [p \in Procs |-> IdleTx]
  /\ db0 = db

NextCorrect ==
  /\ UNCHANGED db0
  /\ \E p \in Procs :
       \/ \E req \in CorrectingRequests :
            \/ req.kind = "inventory_put" /\ InventoryPutStart(p, req)
            \/ req.kind = "barcode_create" /\ BarcodeCreateStart(p, req)
            \/ req.kind = "op_supplies_patch" /\ OpSuppliesPatch(p, req)
       \/ InventoryPut(p)
       \/ BarcodeCreate(p)
       \/ CommitTx(p)
       \/ StoreFailure(p)

SpecCorrect == InitCorrect /\ [][NextCorrect]_vars

\* C19: an item update or scan create that carries a quantity below 0 is
\* rejected, and no stock row stores a quantity below 0 through them.
C19_CorrectionsKeepNonNegative ==
  /\ \A p \in Procs :
       (/\ tx[p].pc = "done"
        /\ tx[p].req.kind \in {"inventory_put", "barcode_create"}
        /\ tx[p].req.quantity < 0) => tx[p].status # 200
  /\ \A r \in db.location_inventory : r.quantity >= 0

(* ---------------------------- scan check-in --------------------------- *)

\* C20: a check-in with a quantity of 0 or less is rejected (so that a
\* check-in never decreases a stock row and never creates a row holding 0).
C20_CheckinNeedsPositiveQuantity ==
  \A p \in Procs :
    (/\ tx[p].pc = "done"
     /\ tx[p].req.kind = "barcode_checkin"
     /\ tx[p].req.quantity <= 0) => tx[p].status # 200

(* --------------------- POST /api/barcode/assign ----------------------- *)

\* pool.query('UPDATE inventory SET barcode = $1 WHERE id = $2 RETURNING *'):
\* one statement on its own, without an owner check; it waits for the lock
\* of the row; a duplicate barcode raises 23505, which the catch block
\* answers 500 'Database error'; else result.rows[0] is sent, with status
\* 200 also when no row matched
BarcodeAssign(p, req) ==
  /\ tx[p].pc = "idle"
  /\ LET rows == {r \in db.inventory : r.id = req.inventory_id}
     IN  /\ ~MustWait(p, "inventory", rows)
         /\ \A r \in rows : ~BarcodeKeyPending(p, req.barcode, r.user_id)
         /\ IF \E r \in rows : BarcodeKeyTaken(p, req.barcode, r.user_id, r.id)
              THEN Respond(p, req, 500)
              ELSE /\ db' = [db EXCEPT !.inventory =
                        {IF r \in rows THEN [r EXCEPT !.barcode = req.barcode] ELSE r :
                           r \in @}]
                   /\ tx' = [tx EXCEPT ![p] = [@ EXCEPT !.pc = "done", !.req = req,
                                                        !.status = 200]]

BarcodeAssignRequest(inventory_id, barcode) ==
  [kind |-> "barcode_assign", user |-> 1, inventory_id |-> inventory_id,
   barcode |-> barcode]

(* ------------------- the catalog: names and barcodes ------------------ *)

\* batch adds to the Common Area of new-flagged entries: a name that matches
\* item 1 up to case, a new name without and with a barcode (once and twice
\* in one batch), and a new name with the barcode of item 1
CatalogAddRequests ==
  {AddRequest("common_area", 0, b) :
     b \in { <<Entry(TRUE, 0, "Gauze", "", 1)>>,
             <<Entry(TRUE, 0, "floss", "", 1)>>,
             <<Entry(TRUE, 0, "floss", "", 1), Entry(TRUE, 0, "floss", "", MaxQty)>>,
             <<Entry(TRUE, 0, "floss", "b2", 1)>>,
             <<Entry(TRUE, 0, "wax", "b1", 1)>> }}

\* the requests that set a barcode: item updates, scan creates and
\* assignments with the barcode of item 1 and with a new one
CatalogBarcodeRequests ==
  {PutRequest(1, b, 1, 1) : b \in {"b1", "b2"}}
    \cup CreateScanRequests
    \cup {BarcodeAssignRequest(i, "b2") : i \in {1, 2, 4}}

InitCatalog ==
  /\ db = InitDb(InitStock(1, -1))
  /\ tx = [p \in Procs |-> IdleTx]
  /\ db0 = db

\* both slots serve one of these requests; no statement fails for a reason
\* outside the handlers
NextCatalog ==
  /\ UNCHANGED db0
  /\ \E p \in Procs :
       \/ \E req \in CatalogAddRequests : InventoryAddStart(p, req)
       \/ \E req \in CatalogBarcodeRequests :
            \/ req.kind = "inventory_put" /\ InventoryPutStart(p, req)
            \/ req.kind = "barcode_create" /\ BarcodeCreateStart(p, req)
            \/ req.kind = "barcode_assign" /\ BarcodeAssign(p, req)
       \/ InventoryAdd(p)
       \/ InventoryPut(p)
       \/ BarcodeCreate(p)
       \/ CommitTx(p)

SpecCatalog == InitCatalog /\ [][NextCatalog]_vars

\* the items of account a in store d whose name matches name up to case
ItemsNamed(d, a, name) ==
  {r \in d.inventory : r.user_id = a /\ NameMatches(r.name, name)}

\* C21: whatever batch adds have run, in whatever interleaving, an account
\* holds at most one item per case-insensitive name, and a batch add of new
\* entries that has committed has created no item for a name that the
\* account held already.
C21_OneItemPerName ==
  (\A p \in Procs : tx[p].req.kind \in {"none", "inventory_add"})
    => /\ \A r1 \in db.inventory : \A r2 \in db.inventory :
            (r1.user_id = r2.user_id /\ NameMatches(r1.name, r2.name)) => r1 = r2
       /\ ItemsNamed(db, 1, "gauze") = ItemsNamed(db0, 1, "gauze")

\* the requests that set the barcode of an item
SetsBarcode(req) ==
  req.kind \in {"inventory_add", "inventory_put", "barcode_create", "barcode_assign"}

\* no two items of one account carry the same barcode ("": none) in store d
BarcodesDistinct(d) ==
  \A r1 \in d.inventory : \A r2 \in d.inventory :
    (r1.user_id = r2.user_id /\ r1.barcode = r2.barcode /\ r1.barcode # "")
       => r1 = r2

\* C22: in every reachable state no two items of an account carry the same
\* barcode, and a request that sets a barcode and is refused (here only
\* because the barcode is taken) is answered with the duplicate-barcode
\* error (400) and changes nothing.
C22_BarcodeUniquePerAccount ==
  [][/\ BarcodesDistinct(db')
     /\ \A p \in Procs :
          (/\ tx[p].pc # "done"
           /\ tx'[p].pc = "done"
           /\ SetsBarcode(tx'[p].req)
           /\ tx'[p].status # 200)
             => (tx'[p].status = 400 /\ Contents(db') = Contents(db))]_vars

(* ------ DELETE /api/inventory/:inventoryId/location/:locationId ------- *)

InventoryDeleteStart(p, req) ==
  /\ tx[p].pc = "idle"
  /\ Begin(p, req, "delete_owner")

\* SELECT 1 FROM inventory WHERE id = $1 AND user_id = $2
InventoryDeleteOwner(p) ==
  /\ tx[p].pc = "delete_owner"
  /\ IF ~OwnsInventory(p, tx[p].req.inventory_id, tx[p].req.user)
       THEN Rollback(p, 403)
       ELSE Goto(p, "delete_stock")

\* DELETE FROM location_inventory WHERE inventory_id = $1 AND location_id = $2
\* RETURNING *: waits for the locks of the rows, whatever their quantity;
\* rowCount === 0 is answered 404
InventoryDeleteStock(p) ==
  /\ tx[p].pc = "delete_stock"
  /\ LET req == tx[p].req
         rows == RowsOf(Visible(p, "location_inventory"), req.inventory_id,
                        req.location_id)
     IN  IF rows = {} THEN Rollback(p, 404)
         ELSE /\ ~MustWait(p, "location_inventory", rows)
              /\ db' = db
              /\ tx' = [tx EXCEPT ![p] = [@ EXCEPT
                    !.ws = [@ EXCEPT !["location_inventory"].del = @ \cup Ids(rows)],
                    !.locks = @ \cup LockKeys("location_inventory", rows),
                    !.pc = "delete_select"]]

\* SELECT 1 FROM location_inventory WHERE inventory_id = $1 LIMIT 1
InventoryDeleteSelect(p) ==
  /\ tx[p].pc = "delete_select"
  /\ LET rows == {r \in Visible(p, "location_inventory") :
                    r.inventory_id = tx[p].req.inventory_id}
     IN  IF rows = {} THEN Goto(p, "delete_inventory") ELSE Goto(p, "commit")

\* a location_inventory without the foreign key: nothing references an item
NoStockReferences(p, id) == {}

\* the foreign key of location_inventory.inventory_id: the stock rows, of
\* those p sees, that reference item id
StockReferences(p, id) ==
  {r \in Visible(p, "location_inventory") : r.inventory_id = id}

\* DELETE FROM inventory WHERE id = $1: waits for the locks on the item
\* (also the key-share locks of open transactions that inserted a stock row
\* of it); a stock row that references the item raises 23503: ROLLBACK, 500
InventoryDeleteInventory(p) ==
  /\ tx[p].pc = "delete_inventory"
  /\ LET id == tx[p].req.inventory_id
         rows == {r \in Visible(p, "inventory") : r.id = id}
     IN  /\ ~MustWait(p, "inventory", rows)
         /\ ~SharedByOther(p, "inventory", id)
         /\ IF rows # {} /\ StockReferences(p, id) # {}
              THEN Rollback(p, 500)
              ELSE /\ db' = db
                   /\ tx' = [tx EXCEPT ![p] = [@ EXCEPT
                         !.ws = [@ EXCEPT !["inventory"].del = @ \cup Ids(rows)],
                         !.locks = @ \cup LockKeys("inventory", rows),
                         !.pc = "commit"]]

InventoryDelete(p) ==
  \/ InventoryDeleteOwner(p)
  \/ InventoryDeleteStock(p)
  \/ InventoryDeleteSelect(p)
  \/ InventoryDeleteInventory(p)

DeleteRequest(inventory_id, location_id) ==
  [kind |-> "inventory_delete", user |-> 1, inventory_id |-> inventory_id,
   location_id |-> location_id]

(* ----------- the removal of a stock row beside its creation ----------- *)

\* deletions of item 1 from the Common Area and from Room A and of the item
\* of another account; batch adds and transfers that create or increase the
\* row of item 1 in Room A
RemovalRequests ==
  {DeleteRequest(1, l) : l \in {1, 2}} \cup {DeleteRequest(2, 3)}
    \cup {AddRequest("location", 2, <<Entry(FALSE, 1, "", "", q)>>) : q \in 1..MaxQty}
    \cup {TransferRequest(1, 1, 2, q) : q \in 1..MaxQty}

\* item 1 has a row in the Common Area (with 0 units or more) and may have
\* one in Room A
InitRemoval ==
  /\ \E qa \in 0..MaxQty : \E qb \in {-1, 0, 1} : db = InitDb(InitStock(qa, qb))
  /\ tx = [p \in Procs |-> IdleTx]
  /\ db0 = db

NextRemoval ==
  /\ UNCHANGED db0
  /\ \E p \in Procs :
       \/ \E req \in RemovalRequests :
            \/ req.kind = "inventory_delete" /\ InventoryDeleteStart(p, req)
            \/ req.kind = "inventory_add" /\ InventoryAddStart(p, req)
            \/ req.kind = "inventory_transfer" /\ InventoryTransferStart(p, req)
       \/ InventoryDelete(p)
       \/ InventoryAdd(p)
       \/ InventoryTransfer(p)
       \/ CommitTx(p)
       \/ StoreFailure(p)

SpecRemoval == InitRemoval /\ [][NextRemoval]_vars

\* C23: no step removes a committed stock row that holds more than 0 units.
C23_RemovedOnlyFromZero ==
  [][\A r \in db.location_inventory :
       r.id \notin Ids(db'.location_inventory) => r.quantity = 0]_vars

\* C24: in every reachable state every stock row references an item that
\* exists, whatever the interleaving of deletions from a location with the
\* batch adds and transfers that create a row of the same item.
C24_StockRowsReferenceAnItem ==
  \A r \in db.location_inventory : r.inventory_id \in Ids(db.inventory)

\* C24 witness: a deletion of the last stock row of item 1 found no other
\* row and is about to delete the item, while a batch add or transfer has
\* committed a row of the item in Room A since: the DELETE will be refused
C24_Witness ==
  \E p \in Procs : \E q \in Procs \ {p} :
    /\ tx[p].pc = "delete_inventory"
    /\ tx[q].pc = "done"
    /\ tx[q].status = 200
    /\ tx[q].req.kind \in {"inventory_add", "inventory_transfer"}
    /\ RowsOf(db0.location_inventory, 1, 2) = {}
    /\ RowsOf(db.location_inventory, 1, 2) # {}
    /\ 1 \in Ids(db.inventory)

(* ------------------------ POST /api/register -------------------------- *)

AuthRegisterStart(p, req) ==
  /\ tx[p].pc = "idle"
  /\ db.seq["users"] < MaxAccounts
  /\ Begin(p, req, "register_user")

\* INSERT INTO users (email, ...) RETURNING id, ...: waits for an open
\* transaction that has inserted the same email; an email that is taken
\* raises 23505 on users_email_key: ROLLBACK and 400
AuthRegisterUser(p) ==
  /\ tx[p].pc = "register_user"
  /\ LET req == tx[p].req
         id == db.seq["users"] + 1
     IN  /\ \A q \in Procs \ {p} : \A r \in tx[q].ws["users"].ins : r.email # req.email
         /\ IF \E r \in Visible(p, "users") : r.email = req.email
              THEN Rollback(p, 400)
              ELSE /\ db' = [db EXCEPT !.seq["users"] = id]
                   /\ tx' = [tx EXCEPT ![p] = [@ EXCEPT
                         !.ws = [@ EXCEPT !["users"].ins = @ \cup
                                   {[id |-> id, email |-> req.email]}],
                         !.rowId = id, !.pc = "register_location"]]

\* INSERT INTO locations (user_id, name, protected)
\*   VALUES (newUser.id, 'Common Area', true)
AuthRegisterLocation(p) ==
  /\ tx[p].pc = "register_location"
  /\ LET id == db.seq["locations"] + 1
     IN  /\ db' = [db EXCEPT !.seq["locations"] = id]
         /\ tx' = [tx EXCEPT ![p] = [@ EXCEPT
               !.ws = [@ EXCEPT !["locations"].ins = @ \cup
                         {[id |-> id, name |-> "Common Area", user_id |-> tx[p].rowId,
                           protected |-> TRUE]}],
               !.pc = "commit"]]

AuthRegister(p) ==
  \/ AuthRegisterUser(p)
  \/ AuthRegisterLocation(p)

(* ------------------- PUT, DELETE /api/locations/:id ------------------- *)

LocationsStart(p, req) ==
  /\ tx[p].pc = "idle"
  /\ Begin(p, req, "locations_check")

\* a check that lets every location through
LocationsCheckUnprotected(p) ==
  /\ tx[p].pc = "locations_check"
  /\ Goto(p, "locations_write")

\* pool.query('SELECT protected FROM locations WHERE id = $1'): 404 when no
\* row, 403 when the location is protected
LocationsCheck(p) ==
  /\ tx[p].pc = "locations_check"
  /\ LET rows == {l \in db.locations : l.id = tx[p].req.id}
     IN  IF rows = {} THEN Rollback(p, 404)
         ELSE IF \E l \in rows : l.protected THEN Rollback(p, 403)
         ELSE Goto(p, "locations_write")

\* PUT: pool.query('UPDATE locations SET name = $1 WHERE id = $2 RETURNING *');
\* DELETE: pool.query('DELETE FROM locations WHERE id = $1'), which waits for
\* the key-share locks on the row and is refused (23503, 400) while a stock
\* row references the location. Each is a statement of its own.
LocationsWrite(p) ==
  /\ tx[p].pc = "locations_write"
  /\ LET req == tx[p].req
     IN  IF req.kind = "locations_put"
           THEN /\ db' = [db EXCEPT !.locations =
                     {IF l.id = req.id THEN [l EXCEPT !.name = req.name] ELSE l : l \in @}]
                /\ tx' = [tx EXCEPT ![p] = [@ EXCEPT !.pc = "done", !.status = 200]]
           ELSE /\ ~SharedByOther(p, "locations", req.id)
                /\ IF \E r \in db.location_inventory : r.location_id = req.id
                     THEN Rollback(p, 400)
                     ELSE /\ db' = [db EXCEPT !.locations = {l \in @ : l.id # req.id}]
                          /\ tx' = [tx EXCEPT ![p] = [@ EXCEPT !.pc = "done",
                                                               !.status = 200]]

Locations(p) ==
  \/ LocationsCheck(p)
  \/ LocationsWrite(p)

\* the response has been sent: the slot serves the next request
NextRequest(p) ==
  /\ tx[p].pc = "done"
  /\ db' = db
  /\ tx' = [tx EXCEPT ![p] = IdleTx]

(* --------------- accounts and their protected location ---------------- *)

RegisterRequest(email) == [kind |-> "auth_register", user |-> 0, email |-> email]

LocationsRequest(kind, id, name) == [kind |-> kind, user |-> 1, id |-> id, name |-> name]

\* registrations with an email that is taken and with a new one; renamings
\* and deletions of the protected locations 1 and 4 and of Room A, and the
\* deletion of a location that does not exist
AccountRequests ==
  {RegisterRequest(m) : m \in {"a@x", "c@x"}}
    \cup {LocationsRequest("locations_put", id, "Lab") : id \in {1, 2, 4}}
    \cup {LocationsRequest("locations_delete", id, "") : id \in {1, 2, 4, 9}}

InitAccounts ==
  /\ \E qb \in {-1, 0} : db = InitDb(InitStock(1, qb))
  /\ tx = [p \in Procs |-> IdleTx]
  /\ db0 = db

\* the slots serve registrations, renamings and deletions one after the other
NextAccounts ==
  /\ UNCHANGED db0
  /\ \E p \in Procs :
       \/ \E req \in AccountRequests :
            \/ req.kind = "auth_register" /\ AuthRegisterStart(p, req)
            \/ req.kind # "auth_register" /\ LocationsStart(p, req)
       \/ AuthRegister(p)
       \/ Locations(p)
       \/ CommitTx(p)
       \/ StoreFailure(p)
       \/ NextRequest(p)

SpecAccounts == InitAccounts /\ [][NextAccounts]_vars

\* account u of store d has a protected location named 'Common Area'
HasCommonArea(d, u) ==
  \E l \in d.locations : l.user_id = u /\ l.name = "Common Area" /\ l.protected

\* C25: every account that is registered has a protected location named
\* 'Common Area' from the step that commits its users row on (registration
\* commits both rows or neither), and no step renames or removes a
\* protected location.
C25_ProtectedCommonArea ==
  [][/\ \A u \in db'.users : HasCommonArea(db', u.id)
     /\ \A l \in db'.locations : l.user_id \in Ids(db'.users)
     /\ \A l \in db.locations : l.protected => l \in db'.locations]_vars

\* C25 witness: an account has been registered since the start, a request
\* to rename or delete its Common Area has been answered 403, and the
\* location is still there under its name
C25_Witness ==
  /\ \E u \in db.users : u \notin db0.users /\ HasCommonArea(db, u.id)
  /\ \E p \in Procs :
       /\ tx[p].pc = "done"
       /\ tx[p].req.kind \in {"locations_put", "locations_delete"}
       /\ tx[p].req.id = 4
       /\ tx[p].status = 403

(* ------------------------- the query layer ---------------------------- *)

\* a read that also sees what open transactions have written and not committed
SnapshotDirty(p, t) ==
  LET upd == UNION {tx[q].ws[t].upd : q \in Procs}
      del == UNION {tx[q].ws[t].del : q \in Procs}
  IN  {r \in db[t] : r.id \notin (Ids(upd) \cup del)} \cup upd
        \cup UNION {tx[q].ws[t].ins : q \in Procs}

\* the rows of table t that a statement run by pool.query on its own sees:
\* one snapshot of what was committed when the statement began
Snapshot(p, t) == db[t]

\* PATCH /api/low-stock/:inventoryId/location/:locationId: one UPDATE of
\* low_stock_threshold on its own, without an owner check; it waits for the
\* lock of the row; rowCount === 0 is answered 404
LowStockPatch(p, req) ==
  /\ tx[p].pc = "idle"
  /\ LET rows == RowsOf(db.location_inventory, req.inventory_id, req.location_id)
     IN  /\ ~MustWait(p, "location_inventory", rows)
         /\ IF rows = {} THEN Respond(p, req, 404)
            ELSE /\ db' = [db EXCEPT !.location_inventory =
                      {IF r \in rows
                         THEN [r EXCEPT !.low_stock_threshold = req.low_stock_threshold]
                         ELSE r : r \in @}]
                 /\ tx' = [tx EXCEPT ![p] = [@ EXCEPT !.pc = "done", !.req = req,
                                                      !.status = 200]]

\* the below-threshold query with < in the place of <=
BelowThresholdRowsStrict(p, user_id) ==
  {[inventory_id |-> li.inventory_id, location_id |-> li.location_id,
    quantity |-> li.quantity] :
     li \in {r \in Snapshot(p, "location_inventory") :
               /\ \E l \in Snapshot(p, "locations") :
                    r.location_id = l.id /\ l.user_id = user_id
               /\ r.low_stock_threshold # Null
               /\ r.quantity < r.low_stock_threshold}}

\* SELECT ... FROM location_inventory li JOIN inventory inv ON ... JOIN
\* locations l ON ... WHERE l.user_id = $1 AND li.quantity <= li.low_stock_threshold
\* (a comparison with NULL is not true)
BelowThresholdRows(p, user_id) ==
  {[inventory_id |-> li.inventory_id, location_id |-> li.location_id,
    quantity |-> li.quantity] :
     li \in {r \in Snapshot(p, "location_inventory") :
               /\ \E inv \in Snapshot(p, "inventory") : r.inventory_id = inv.id
               /\ \E l \in Snapshot(p, "locations") :
                    r.location_id = l.id /\ l.user_id = user_id
               /\ r.low_stock_threshold # Null
               /\ r.quantity <= r.low_stock_threshold}}

\* SELECT ... FROM inventory inv LEFT JOIN location_inventory li ON
\* inv.id = li.inventory_id ... WHERE inv.user_id = $1: a row per stock row
\* of an item of the account, and a row of NULLs for an item without stock
InventoryRows(p, user_id) ==
  LET items == {inv \in Snapshot(p, "inventory") : inv.user_id = user_id}
      stock == Snapshot(p, "location_inventory")
  IN  {[inventory_id |-> li.inventory_id, location_id |-> li.location_id,
        quantity |-> li.quantity] :
         li \in {r \in stock : r.inventory_id \in Ids(items)}}
        \cup {[inventory_id |-> inv.id, location_id |-> Null, quantity |-> Null] :
                inv \in {x \in items : \A r \in stock : r.inventory_id # x.id}}

\* GET /api/low-stock/below-threshold and GET /api/inventory: one SELECT,
\* whose rows are the response
QueryGet(p, req) ==
  /\ tx[p].pc = "idle"
  /\ db' = db
  /\ tx' = [tx EXCEPT ![p] = [@ EXCEPT
        !.pc = "done", !.req = req, !.status = 200,
        !.result = IF req.kind = "low_stock_below"
                     THEN BelowThresholdRows(p, req.user)
                     ELSE InventoryRows(p, req.user)]]

QueryRequest(kind, user) == [kind |-> kind, user |-> user]

ThresholdRequest(inventory_id, location_id, low_stock_threshold) ==
  [kind |-> "low_stock_patch", user |-> 1, inventory_id |-> inventory_id,
   location_id |-> location_id, low_stock_threshold |-> low_stock_threshold]

(* ------------------- reads beside the movements ----------------------- *)

\* the movements of item 1 out of the Common Area: transfers and batch adds
\* with destination 'transfer' into Room A, and scan consumes
QueryMovementRequests ==
  {TransferRequest(1, 1, 2, q) : q \in 1..MaxQty}
    \cup {AddRequest("transfer", 2, <<Entry(FALSE, 1, "", "", q)>>) : q \in 1..MaxQty}
    \cup {ScanConsumeRequest(1, 1, q) : q \in 1..MaxQty}

\* the reads of account 1 and the settings of the threshold of the row of
\* item 1 in the Common Area
QueryReadRequests ==
  {QueryRequest(k, 1) : k \in {"low_stock_below", "inventory_get"}}
    \cup {ThresholdRequest(1, 1, v) : v \in {0, 1}}

\* item 1: qa units in the Common Area with a threshold of 0, of 1 or none,
\* a row in Room A or none; item 2 of account 2: 0 units under a threshold of 1
InitQuery ==
  /\ \E qa \in 1..MaxQty : \E t \in {Null, 0, 1} : \E qb \in {-1, 1} :
       db = InitDb({[StockRow(1, 1, 1, qa) EXCEPT !.low_stock_threshold = t],
                    [StockRow(3, 2, 3, 0) EXCEPT !.low_stock_threshold = 1]}
                   \cup {StockRow(2, 1, 2, qb) : x \in (IF qb >= 0 THEN {1} ELSE {})})
  /\ tx = [p \in Procs |-> IdleTx]
  /\ db0 = db

NextQuery ==
  /\ UNCHANGED db0
  /\ \E p \in Procs :
       \/ \E req \in QueryMovementRequests : StartRequest(p, req)
       \/ \E req \in QueryReadRequests :
            \/ req.kind = "low_stock_patch" /\ LowStockPatch(p, req)
            \/ req.kind # "low_stock_patch" /\ QueryGet(p, req)
       \/ InventoryTransfer(p)
       \/ InventoryAdd(p)
       \/ BarcodeConsume(p)
       \/ CommitTx(p)
       \/ StoreFailure(p)

SpecQuery == InitQuery /\ [][NextQuery]_vars

\* slot p answers a read of the given kind in this step
Answers(p, kind) == tx[p].pc = "idle" /\ tx'[p].pc = "done" /\ tx'[p].req.kind = kind

\* the stock rows in the locations of an account
AccountStock(d, user_id) ==
  {r \in d.location_inventory :
     \E l \in d.locations : l.id = r.location_id /\ l.user_id = user_id}

\* C26: the below-threshold query answers with exactly the stock rows of
\* the actor's account whose quantity is at most their threshold, a row
\* without a threshold never being one of them; no movement removes a stock
\* row, so a row taken to 0 stays, with quantity 0, and is reported once
\* its threshold is set
C26_BelowThresholdExact ==
  [][/\ \A p \in Procs : Answers(p, "low_stock_below") =>
          tx'[p].result =
            {[inventory_id |-> r.inventory_id, location_id |-> r.location_id,
              quantity |-> r.quantity] :
               r \in {x \in AccountStock(db, tx'[p].req.user) :
                        /\ x.low_stock_threshold >= 0
                        /\ x.quantity <= x.low_stock_threshold}}
     /\ \A r \in db.location_inventory : r.id \in Ids(db'.location_inventory)
    ]_vars

\* a movement took the row of item 1 in the Common Area to 0 and a later
\* query reported it with quantity 0
C26_Witness ==
  \E p \in Procs : \E q \in Procs \ {p} :
    /\ tx[p].pc = "done" /\ tx[p].status = 200
    /\ tx[p].req.kind \in {"inventory_transfer", "inventory_add", "barcode_consume"}
    /\ tx[q].pc = "done" /\ tx[q].req.kind = "low_stock_below"
    /\ [inventory_id |-> 1, location_id |-> 1, quantity |-> 0] \in tx[q].result
    /\ QuantityAt(db.location_inventory, 1, 1) = 0

\* the rows of a store as a read of an account reports them
StockView(d, user_id) ==
  {[inventory_id |-> r.inventory_id, location_id |-> r.location_id,
    quantity |-> r.quantity] : r \in AccountStock(d, user_id)}

\* the other slots run a transfer or a batch of destination 'transfer', or nothing
OnlyTransfersBeside(p) ==
  \A q \in Procs \ {p} : tx[q].req.kind \in {"none", "inventory_transfer", "inventory_add"}

\* C27: a read answered beside transfers sees, of item 1, the total there
\* was before them, and every row it sees is a row of the store before the
\* transfer or a row of the store after its COMMIT
C27_ReadsSeeWholeMovements ==
  [][\A p \in Procs :
       /\ OnlyTransfersBeside(p)
       /\ \A q \in Procs : tx[q].req.kind # "low_stock_patch"
       =>
       /\ Answers(p, "inventory_get") =>
            SumQuantity({r \in tx'[p].result : r.inventory_id = 1 /\ r.location_id # Null})
              = SumQuantity({r \in db0.location_inventory : r.inventory_id = 1})
       /\ Answers(p, "inventory_get") \/ Answers(p, "low_stock_below") =>
            \/ tx'[p].result \subseteq StockView(db0, 1)
            \/ /\ \A q \in Procs \ {p} : tx[q].pc = "done" /\ tx[q].status = 200
               /\ tx'[p].result \subseteq StockView(db, 1)
    ]_vars

\* a read of the inventory answered while a transfer has decremented its
\* source and not yet incremented its destination
C27_Witness ==
  \E p \in Procs : \E q \in Procs \ {p} :
    /\ tx[p].pc = "done" /\ tx[p].req.kind = "inventory_get"
    /\ tx[q].req.kind = "inventory_transfer" /\ tx[q].pc \notin {"idle", "done"}
    /\ tx[q].ws["location_inventory"].upd # {}
    /\ tx[q].ws["location_inventory"].ins = {}
    /\ QuantityAt(tx[q].ws["location_inventory"].upd, 1, 2) = 0
    /\ SumQuantity({r \in tx[p].result : r.inventory_id = 1}) =
         SumQuantity({r \in db0.location_inventory : r.inventory_id = 1})

(* -------------- db/utils.js: query() and transaction() ---------------- *)
(* tx[p] is a call of query(), of transaction() or of a route handler that *)
(* runs its own transaction; db is the pool and what has been committed.   *)

MaxRetries == 5

PoolMax == 1

\* the error of a lost or refused connection; the SQLSTATE codes of a unique
\* violation, a check violation, a NULL in a NOT NULL column and a missing
\* table; and "Error", an error without a code thrown by a callback
ConnectionError == "ETIMEDOUT"

ErrorCodes == {ConnectionError, "23505", "23514", "23502", "42P01", "Error"}

\* if (error.code === '23505' || '23503' || '42P01' || '42703') throw error
NonRetryable(code) == code \in {"23505", "23503", "42P01", "42703"}

\* the delay without its cap
BackoffUncapped(attempt) == 1000 * 2 ^ (attempt - 1)

\* Math.min(1000 * Math.pow(2, attempt - 1), 5000)
Backoff(attempt) ==
  LET d == 1000 * 2 ^ (attempt - 1) IN IF d < 5000 THEN d ELSE 5000

\* what an attempt starts from
NewAttempt == [client |-> FALSE, broken |-> FALSE, begun |-> FALSE, open |-> FALSE,
               pending |-> {}, commits |-> 0, rollbacks |-> 0, error |-> "none"]

IdleCall == [pc |-> "idle", kind |-> "none", retries |-> 0, attempt |-> 0,
             att |-> NewAttempt, executed |-> 0, released |-> 0, delays |-> <<>>,
             lastError |-> "none", outcome |-> "none", thrown |-> "none",
             route |-> "none", responses |-> <<>>]

\* a response: its status, the code of its body, and whether the error of
\* its body is a fixed text or the message of the error that was caught
Response(status, code, error) == [status |-> status, code |-> code, error |-> error]

\* errorHandler(err, req, res, next)
ErrorHandler(code) ==
  IF code = ConnectionError THEN Response(503, "DB_CONNECTION_ERROR", "fixed")
  ELSE IF code = "23505" THEN Response(409, "DUPLICATE_RECORD", "fixed")
  ELSE IF code = "23503" THEN Response(400, "INVALID_REFERENCE", "fixed")
  ELSE IF code = "23502" THEN Response(400, "MISSING_REQUIRED_FIELD", "fixed")
  ELSE IF code \in {"42P01", "42703"} THEN Response(500, "SCHEMA_ERROR", "fixed")
  ELSE Response(500, "INTERNAL_ERROR", "fixed")

\* an error that leaves an async handler that is not wrapped by asyncHandler
\* rejects the promise of the handler: Express 4 ignores the rejection and
\* no response is sent, Express 5 passes it to errorHandler (src/ does not
\* tell which one the build uses)
Unhandled(code) == {<<>>, <<ErrorHandler(code)>>}

\* the routes: two that run their own transaction (POST /inventory/consume,
\* POST /inventory/transfer), one that runs pool.query in a try block
\* (GET /inventory), one wrapped by asyncHandler (GET /locations)
Routes == {"inventory_consume", "inventory_transfer", "inventory_get", "locations_get"}

RouteKind(route) ==
  IF route = "inventory_get" THEN "read"
  ELSE IF route = "locations_get" THEN "wrapped"
  ELSE "handler"

\* res.status(500).json(...) of the catch block: POST /transfer answers
\* err.message || 'Transfer failed', POST /consume a fixed text
CatchResponse(route, code) ==
  Response(500, "", IF route = "inventory_transfer" /\ code # "none"
                      THEN "err.message" ELSE "fixed")

\* a request to a route, behind verifyToken
Request(p, route) ==
  /\ tx[p].pc = "idle"
  /\ db' = db
  /\ tx' = [tx EXCEPT ![p] = [IdleCall EXCEPT
        !.pc = IF RouteKind(route) = "handler" THEN "loop" ELSE "route_query",
        !.kind = RouteKind(route), !.route = route, !.retries = 1, !.attempt = 1]]

Att(p) == tx[p].att

\* a call of query(text, params, retries) or transaction(callback, retries)
Call(p, kind, retries) ==
  /\ tx[p].pc = "idle"
  /\ tx' = [tx EXCEPT ![p] = [IdleCall EXCEPT !.pc = "loop", !.kind = kind,
                                              !.retries = retries, !.attempt = 1]]
  /\ db' = db

\* for (let attempt = 1; attempt <= retries; attempt++) ... throw lastError
RetryLoop(p) ==
  /\ tx[p].pc = "loop"
  /\ db' = db
  /\ tx' = [tx EXCEPT ![p] =
       IF tx[p].attempt <= tx[p].retries
         THEN [@ EXCEPT !.pc = IF tx[p].kind = "query" THEN "pool_query" ELSE "connect"]
         ELSE [@ EXCEPT !.pc = "done", !.outcome = "thrown", !.thrown = tx[p].lastError]]

\* const client = await pool.connect(), before the try block: it waits for
\* a free client, and its rejection leaves the function at once
TransactionConnect(p) ==
  /\ tx[p].pc = "connect"
  /\ \/ /\ db.free > 0
        /\ db' = [db EXCEPT !.free = @ - 1]
        /\ tx' = [tx EXCEPT ![p] = [@ EXCEPT !.pc = "begin", !.att.client = TRUE]]
     \/ /\ db' = db
        /\ \E rs \in (IF tx[p].kind = "handler" THEN Unhandled(ConnectionError)
                      ELSE {<<>>}) :
             tx' = [tx EXCEPT ![p] = [@ EXCEPT !.pc = "done", !.outcome = "thrown",
                                               !.thrown = ConnectionError,
                                               !.responses = rs]]

\* the connection of the client is lost: the statement fails and the
\* server ends the transaction of the session without committing it
Broken(c, code) ==
  [c EXCEPT !.broken = TRUE, !.open = FALSE, !.pending = {}, !.error = code]

\* await client.query('BEGIN')
TransactionBegin(p) ==
  /\ tx[p].pc = "begin"
  /\ db' = db
  /\ \/ tx' = [tx EXCEPT ![p] = [@ EXCEPT !.pc = "body", !.att.begun = TRUE,
                                          !.att.open = TRUE]]
     \/ tx' = [tx EXCEPT ![p] = [@ EXCEPT !.pc = "catch",
                                          !.att = Broken(@, ConnectionError)]]

\* await callback(client), or the statements of a handler between BEGIN and
\* COMMIT: it completes, or it raises an error before or after it has
\* written, or (a handler) it refuses the request: ROLLBACK and return
TransactionCallback(p) ==
  /\ tx[p].pc = "body"
  /\ db' = db
  /\ \/ tx' = [tx EXCEPT ![p] = [@ EXCEPT !.pc = "commit", !.executed = @ + 1,
                  !.att.pending = {<<p, tx[p].attempt, "completed">>}]]
     \/ \E code \in ErrorCodes : \E wrote \in BOOLEAN :
          tx' = [tx EXCEPT ![p] = [@ EXCEPT !.pc = "catch", !.executed = @ + 1,
                  !.att = IF code = ConnectionError THEN Broken(@, code)
                          ELSE [@ EXCEPT !.error = code,
                                  !.pending = IF wrote
                                                THEN {<<p, tx[p].attempt, "raised">>}
                                                ELSE {}]]]
     \/ /\ tx[p].kind = "handler"
        /\ \/ tx' = [tx EXCEPT ![p] = [@ EXCEPT !.pc = "finally", !.executed = @ + 1,
                        !.outcome = "returned",
                        !.responses = Append(@, Response(400, "", "fixed")),
                        !.att = [@ EXCEPT !.open = FALSE, !.rollbacks = @ + 1]]]
           \/ tx' = [tx EXCEPT ![p] = [@ EXCEPT !.pc = "catch", !.executed = @ + 1,
                        !.att = Broken(@, ConnectionError)]]

\* await client.query('COMMIT'); return result. A COMMIT whose connection
\* is lost may have been carried out or not
TransactionCommit(p) ==
  /\ tx[p].pc = "commit"
  /\ \/ /\ db' = [db EXCEPT !.committed = @ \cup Att(p).pending]
        /\ tx' = [tx EXCEPT ![p] = [@ EXCEPT !.pc = "finally", !.outcome = "returned",
                     !.responses = IF tx[p].kind = "handler"
                                     THEN Append(@, Response(200, "", "fixed")) ELSE @,
                     !.att = [@ EXCEPT !.open = FALSE, !.pending = {},
                                       !.commits = @ + 1]]]
     \/ \E applied \in BOOLEAN :
          /\ db' = [db EXCEPT !.committed =
                      IF applied THEN @ \cup Att(p).pending ELSE @]
          /\ tx' = [tx EXCEPT ![p] = [@ EXCEPT !.pc = "catch",
                       !.att = [Broken(@, ConnectionError) EXCEPT
                                  !.commits = IF applied THEN @ + 1 ELSE @]]]

\* a catch block that does not issue ROLLBACK
TransactionCatchNoRollback(p) ==
  /\ tx[p].pc = "catch"
  /\ db' = db
  /\ tx' = [tx EXCEPT ![p] = [@ EXCEPT !.lastError = Att(p).error,
               !.pc = IF tx[p].kind = "handler" THEN "finally" ELSE "decide",
               !.responses = IF tx[p].kind = "handler"
                               THEN Append(@, CatchResponse(tx[p].route, Att(p).error))
                               ELSE @,
               !.outcome = IF tx[p].kind = "handler" THEN "returned" ELSE @]]

\* catch (error) { lastError = error; ROLLBACK ... }: transaction() swallows
\* a failure of ROLLBACK; in a handler it leaves the catch block, and the
\* answer 500 is not sent
TransactionCatch(p) ==
  /\ tx[p].pc = "catch"
  /\ db' = db
  /\ \/ /\ ~Att(p).broken
        /\ tx' = [tx EXCEPT ![p] = [@ EXCEPT !.lastError = Att(p).error,
                     !.pc = IF tx[p].kind = "handler" THEN "finally" ELSE "decide",
                     !.outcome = IF tx[p].kind = "handler" THEN "returned" ELSE @,
                     !.responses = IF tx[p].kind = "handler"
                                     THEN Append(@, CatchResponse(tx[p].route, Att(p).error))
                                     ELSE @,
                     !.att = [@ EXCEPT !.open = FALSE, !.pending = {},
                                       !.rollbacks = @ + 1]]]
     \/ \E rs \in (IF tx[p].kind = "handler" THEN Unhandled(ConnectionError)
                   ELSE {<<>>}) :
          tx' = [tx EXCEPT ![p] = [@ EXCEPT !.lastError = Att(p).error,
                  !.pc = IF tx[p].kind = "handler" THEN "finally" ELSE "decide",
                  !.outcome = IF tx[p].kind = "handler" THEN "thrown" ELSE @,
                  !.thrown = IF tx[p].kind = "handler" THEN ConnectionError ELSE @,
                  !.responses = @ \o rs,
                  !.att = [Broken(@, ConnectionError) EXCEPT !.error = Att(p).error]]]

\* the rest of the catch block of query() and transaction(): the codes that
\* are thrown at once, and the delay before the next attempt
RetryDecide(p) ==
  /\ tx[p].pc = "decide"
  /\ db' = db
  /\ LET next == IF tx[p].kind = "query" THEN "next" ELSE "finally"
     IN  IF NonRetryable(tx[p].lastError)
           THEN tx' = [tx EXCEPT ![p] = [@ EXCEPT !.pc = next, !.outcome = "thrown",
                                                  !.thrown = tx[p].lastError]]
         ELSE IF tx[p].attempt < tx[p].retries
           THEN tx' = [tx EXCEPT ![p] = [@ EXCEPT !.pc = next,
                          !.delays = Append(@, Backoff(tx[p].attempt))]]
         ELSE tx' = [tx EXCEPT ![p] = [@ EXCEPT !.pc = next]]

\* finally { client.release() }, then the return, the throw or attempt++
TransactionFinally(p) ==
  /\ tx[p].pc \in {"finally", "next"}
  /\ db' = IF tx[p].pc = "finally" THEN [db EXCEPT !.free = @ + 1] ELSE db
  /\ tx' = [tx EXCEPT ![p] = [@ EXCEPT
        !.released = IF tx[p].pc = "finally" THEN @ + 1 ELSE @,
        !.att = IF tx[p].outcome = "none" THEN NewAttempt
                ELSE [@ EXCEPT !.client = FALSE],
        !.attempt = IF tx[p].outcome = "none" THEN @ + 1 ELSE @,
        !.pc = IF tx[p].outcome = "none" THEN "loop" ELSE "done"]]

\* const result = await pool.query(text, params); return result
PoolQuery(p) ==
  /\ tx[p].pc = "pool_query"
  /\ \/ /\ db' = [db EXCEPT !.committed = @ \cup {<<p, tx[p].attempt, "completed">>}]
        /\ tx' = [tx EXCEPT ![p] = [@ EXCEPT !.pc = "done", !.executed = @ + 1,
                                             !.outcome = "returned"]]
     \/ \E code \in ErrorCodes \ {"Error"} :
          /\ db' = db
          /\ tx' = [tx EXCEPT ![p] = [@ EXCEPT !.pc = "decide", !.executed = @ + 1,
                                               !.lastError = code]]

\* a route that runs one statement with pool.query: GET /inventory answers
\* 500 from its catch block, GET /locations lets the error reach errorHandler
RoutePoolQuery(p) ==
  /\ tx[p].pc = "route_query"
  /\ db' = db
  /\ \/ tx' = [tx EXCEPT ![p] = [@ EXCEPT !.pc = "done", !.executed = @ + 1,
                  !.outcome = "returned",
                  !.responses = Append(@, Response(200, "", "fixed"))]]
     \/ \E code \in ErrorCodes \ {"Error"} :
          tx' = [tx EXCEPT ![p] = [@ EXCEPT !.pc = "done", !.executed = @ + 1,
                  !.outcome = "returned", !.lastError = code,
                  !.responses = Append(@, IF tx[p].kind = "wrapped"
                                            THEN ErrorHandler(code)
                                            ELSE Response(500, "", "fixed"))]]

\* the health check of every minute: const client = await pool.connect()
\* inside its try block; a rejection is logged
HealthCheckConnect(p) ==
  /\ tx[p].pc = "idle"
  /\ \/ /\ db.free > 0
        /\ db' = [db EXCEPT !.free = @ - 1]
        /\ tx' = [tx EXCEPT ![p] = [IdleCall EXCEPT !.pc = "health_select",
                     !.kind = "health", !.att.client = TRUE]]
     \/ /\ db' = db
        /\ tx' = [tx EXCEPT ![p] = [IdleCall EXCEPT !.pc = "done", !.kind = "health",
                     !.lastError = ConnectionError]]

\* await client.query('SELECT 1'); client.release(), and the catch block
\* that logs the error of a SELECT that failed
HealthCheckSelect(p) ==
  /\ tx[p].pc = "health_select"
  /\ \/ /\ db' = [db EXCEPT !.free = @ + 1]
        /\ tx' = [tx EXCEPT ![p] = [@ EXCEPT !.pc = "done", !.executed = @ + 1,
                     !.released = @ + 1, !.att.client = FALSE]]
     \/ /\ db' = db
        /\ tx' = [tx EXCEPT ![p] = [@ EXCEPT !.pc = "done", !.executed = @ + 1,
                     !.lastError = ConnectionError, !.att.broken = TRUE]]

InitRetry ==
  /\ db = [free |-> PoolMax, committed |-> {}]
  /\ tx = [p \in Procs |-> IdleCall]
  /\ db0 = db

\* slot 1 calls query() and transaction(), slot 2 serves a request to
\* POST /inventory/consume
NextRetry ==
  /\ UNCHANGED db0
  /\ \E p \in Procs :
       \/ /\ p = 1
          /\ \E kind \in {"query", "transaction"} : \E retries \in {1, MaxRetries} :
               Call(p, kind, retries)
       \/ p = 2 /\ Request(p, "inventory_consume")
       \/ RetryLoop(p)
       \/ TransactionConnect(p)
       \/ TransactionBegin(p)
       \/ TransactionCallback(p)
       \/ TransactionCommit(p)
       \/ TransactionCatch(p)
       \/ RetryDecide(p)
       \/ TransactionFinally(p)
       \/ PoolQuery(p)

SpecRetry == InitRetry /\ [][NextRetry]_vars

\* both slots serve requests to the routes, or run the health check
NextRoutes ==
  /\ UNCHANGED db0
  /\ \E p \in Procs :
       \/ \E route \in Routes : Request(p, route)
       \/ HealthCheckConnect(p)
       \/ HealthCheckSelect(p)
       \/ RoutePoolQuery(p)
       \/ RetryLoop(p)
       \/ TransactionConnect(p)
       \/ TransactionBegin(p)
       \/ TransactionCallback(p)
       \/ TransactionCommit(p)
       \/ TransactionCatch(p)
       \/ TransactionFinally(p)

SpecRoutes == InitRetry /\ [][NextRoutes]_vars

\* slot p gives its client back to the pool in this step
Releases(p) == tx[p].att.client /\ tx'[p].released = tx[p].released + 1

\* C28: when a client goes back to the pool no transaction is open on it
\* and nothing is left uncommitted; a transaction that was begun has ended
\* with one COMMIT or one ROLLBACK, never both, or with the loss of its
\* connection; COMMIT is issued only after the body completed, and nothing
\* written by a body that raised an error is ever committed
C28_CommitOrRollbackBeforeRelease ==
  [][\A p \in Procs :
       /\ Releases(p) =>
            /\ ~Att(p).open /\ Att(p).pending = {}
            /\ Att(p).commits + Att(p).rollbacks <= 1
            /\ Att(p).begun /\ ~Att(p).broken =>
                 Att(p).commits + Att(p).rollbacks = 1
       /\ tx'[p].att.commits > Att(p).commits =>
            /\ tx[p].pc = "commit"
            /\ \A m \in Att(p).pending : m[3] = "completed"
       /\ \A m \in db'.committed : m[3] = "completed"
       /\ ~tx'[p].att.client => ~tx'[p].att.open
    ]_vars

\* transaction() has thrown 23505 raised by its callback after one ROLLBACK
\* and one release, a handler has answered after its ROLLBACK, and nothing
\* of either is committed
C28_Witness ==
  /\ tx[1].pc = "done" /\ tx[1].kind = "transaction" /\ tx[1].thrown = "23505"
  /\ tx[1].att.rollbacks = 1 /\ tx[1].att.commits = 0 /\ tx[1].released = 1
  /\ tx[2].pc = "done" /\ tx[2].outcome = "returned" /\ tx[2].lastError = "Error"
  /\ tx[2].att.rollbacks = 1 /\ tx[2].released = 1
  /\ db.committed = {}

\* the attempts a finished call has made
AttemptsMade(p) ==
  IF tx[p].attempt > tx[p].retries THEN tx[p].retries ELSE tx[p].attempt

\* C29: a call of query() or transaction() makes at most `retries` attempts;
\* one that ends by throwing a connection error has made all of them (and
\* query() has run its statement in each), and one that returns made no
\* attempt after the one that succeeded
C29_RetriesExactly ==
  \A p \in Procs : tx[p].kind \in {"query", "transaction"} =>
    /\ tx[p].attempt <= tx[p].retries + 1
    /\ Len(tx[p].delays) < tx[p].retries
    /\ tx[p].pc = "done" /\ tx[p].outcome = "thrown" /\ tx[p].thrown = ConnectionError =>
         /\ AttemptsMade(p) = tx[p].retries
         /\ tx[p].kind = "query" => tx[p].executed = tx[p].retries
    /\ tx[p].pc = "done" /\ tx[p].outcome = "returned" =>
         /\ tx[p].attempt <= tx[p].retries
         /\ tx[p].kind = "query" => tx[p].executed = tx[p].attempt

\* an error that no further attempt can cure: a violated constraint, a
\* missing table or column, a NULL in a NOT NULL column, an error thrown
\* by the callback itself
Permanent(code) == code \in ErrorCodes \ {ConnectionError}

\* C30: an attempt that fails with a permanent error is the last one: the
\* error is thrown from the catch block, and no delay is waited
C30_OnlyTransientRetried ==
  [][\A p \in Procs :
       tx[p].pc = "decide" /\ tx'[p].pc # "decide" /\ Permanent(tx[p].lastError) =>
         /\ tx'[p].outcome = "thrown" /\ tx'[p].thrown = tx[p].lastError
         /\ tx'[p].delays = tx[p].delays
    ]_vars

(* -------- two batch consumes of the same items in opposite order ------ *)

\* the batch consume of p waits, at its SELECT ... FOR UPDATE, for a row
\* lock that q holds
WaitsFor(p, q) ==
  /\ tx[p].pc = "consume_lock"
  /\ LET req == tx[p].req
         item == req.supplies[tx[p].i]
         rows == RowsOf(Visible(p, "location_inventory"), item.inventory_id, req.location)
     IN  \E r \in Committed("location_inventory", rows) :
           <<"location_inventory", r.id>> \in tx[q].locks

CircularWait == \E p \in Procs : \E q \in Procs \ {p} : WaitsFor(p, q) /\ WaitsFor(q, p)

\* the store ends a circular wait by failing the waiting statement of one
\* of the two transactions (deadlock detected); the catch block of its
\* handler rolls back and answers 500
DeadlockDetected(p) ==
  /\ \E q \in Procs \ {p} : WaitsFor(p, q) /\ WaitsFor(q, p)
  /\ Rollback(p, 500)

\* batches of two entries at Room A: items 1 and 3 in both orders
OrderRequests ==
  {ConsumeRequest(2, <<Entry(FALSE, o[1], "", "", q), Entry(FALSE, o[2], "", "", r)>>) :
     o \in {<<1, 3>>, <<3, 1>>}, q \in 1..MaxQty, r \in 1..MaxQty}

\* account 1 has items 1 and 3, both with a row in Room A
InitOrder ==
  /\ \E qa \in 1..MaxQty : \E qb \in 1..MaxQty :
       db = [InitDb({StockRow(1, 1, 2, qa), StockRow(2, 3, 2, qb)}) EXCEPT
               !.inventory = @ \cup {[id |-> 3, name |-> "floss", barcode |-> "",
                                      user_id |-> 1]}]
  /\ tx = [p \in Procs |-> IdleTx]
  /\ db0 = db

NextOrder ==
  /\ UNCHANGED db0
  /\ \E p \in Procs :
       \/ \E req \in OrderRequests : InventoryConsumeStart(p, req)
       \/ InventoryConsume(p)
       \/ DeadlockDetected(p)

SpecOrder == InitOrder /\ [][NextOrder]_vars

\* C38: two batch consumes never wait for each other in a circle, and each
\* ends with its COMMIT or with an insufficient-quantity answer
C38_NoCircularWait ==
  /\ ~CircularWait
  /\ \A p \in Procs : tx[p].pc = "done" => tx[p].status \in {200, 400}

\* C35: two batch adds of destination 'transfer' that draw item 1 from the
\* Common Area never both commit when together they draw more than it held
C35_AddTransferSerializes ==
  \A p \in Procs : \A q \in Procs \ {p} :
    /\ tx[p].pc = "done" /\ tx[p].status = 200 /\ tx[p].req.kind = "inventory_add"
    /\ tx[q].pc = "done" /\ tx[q].status = 200 /\ tx[q].req.kind = "inventory_add"
    => tx[p].req.supplies[1].quantity + tx[q].req.supplies[1].quantity
         <= QuantityAt(db0.location_inventory, 1, 1)

(* ------------------------- auth/verifyToken.js ------------------------ *)

\* req.cookies?.authToken, else the second part of an Authorization header
\* of two parts whose first is 'Bearer'; "" when there is none
Token(req) ==
  IF req.cookie # "" THEN req.cookie
  ELSE IF Len(req.authorization) = 2 /\ req.authorization[1] = "Bearer"
    THEN req.authorization[2]
  ELSE ""

\* jwt.verify(token, process.env.JWT_SECRET) does not throw: "t1" is the
\* token signed with the secret for account 1
JwtVerify(token) == token = "t1"

\* a verifyToken that calls next() whatever the request carries
VerifyTokenAlwaysNext(p, req) == StartRequest(p, req)

\* verifyToken in front of a route: 401 without a token, 403 when the token
\* does not verify, else next(): the handler of the route
VerifyToken(p, req) ==
  /\ tx[p].pc = "idle"
  /\ IF Token(req) = "" THEN Respond(p, req, 401)
     ELSE IF ~JwtVerify(Token(req)) THEN Respond(p, req, 403)
     ELSE StartRequest(p, req)

\* the cookies and Authorization headers a request may carry
Credentials ==
  {[cookie |-> c, authorization |-> h] :
     c \in {"", "t1", "forged"},
     h \in {<<>>, <<"Bearer", "t1">>, <<"Bearer", "expired">>, <<"Bearer", "">>,
            <<"Basic", "t1">>, <<"t1">>}}

\* movements of item 1 with each of the credentials
AuthRequests ==
  {r @@ c : r \in {ScanConsumeRequest(1, 2, 1), CheckinRequest(1, 2, 1),
                   TransferRequest(1, 1, 2, 1)},
            c \in Credentials}

InitAuth ==
  /\ \E qa \in 0..MaxQty : \E qb \in 0..MaxQty : db = InitDb(InitStock(qa, qb))
  /\ tx = [p \in Procs |-> IdleTx]
  /\ db0 = db

NextAuth ==
  /\ UNCHANGED db0
  /\ \E p \in Procs :
       \/ \E req \in AuthRequests : VerifyToken(p, req)
       \/ BarcodeConsume(p)
       \/ BarcodeCheckin(p)
       \/ InventoryTransfer(p)
       \/ CommitTx(p)

SpecAuth == InitAuth /\ [][NextAuth]_vars

\* the request carries a token that verifies: in its cookie, or, when it
\* has no cookie, as 'Bearer <token>' in its Authorization header
Authenticated(req) ==
  \/ req.cookie = "t1"
  \/ req.cookie = "" /\ req.authorization = <<"Bearer", "t1">>

\* the request carries no token at all
Anonymous(req) ==
  /\ req.cookie = ""
  /\ req.authorization \notin {<<"Bearer", t>> : t \in {"t1", "expired"}}

\* C34: a request without a token is answered 401 and one whose token does
\* not verify 403, in the step that takes it and without a change of the
\* store; only requests whose token verifies reach a handler, and only
\* while such a request is served does the store change
C34_VerifiedActorOnly ==
  [][/\ \A p \in Procs : tx[p].pc = "idle" /\ tx'[p].pc # "idle" =>
          LET req == tx'[p].req
          IN  /\ Anonymous(req) =>
                   tx'[p].pc = "done" /\ tx'[p].status = 401 /\ db' = db
              /\ ~Anonymous(req) /\ ~Authenticated(req) =>
                   tx'[p].pc = "done" /\ tx'[p].status = 403 /\ db' = db
              /\ Authenticated(req) => tx'[p].status \notin {401, 403}
     /\ \A p \in Procs : InTx(p) => Authenticated(tx[p].req)
     /\ db' # db => \E p \in Procs : tx[p].pc = "commit" /\ Authenticated(tx[p].req)
    ]_vars

\* a request whose cookie does not verify was refused 403 although its
\* header carries a good token, and a request with a Bearer token and no
\* cookie has committed its movement
C34_Witness ==
  \E p \in Procs : \E q \in Procs \ {p} :
    /\ tx[p].pc = "done" /\ tx[p].status = 403 /\ tx[p].req.cookie = "forged"
    /\ tx[p].req.authorization = <<"Bearer", "t1">>
    /\ tx[q].pc = "done" /\ tx[q].status = 200 /\ tx[q].req.cookie = ""
    /\ tx[q].req.authorization = <<"Bearer", "t1">>
    /\ db # db0

\* C39: the k-th wait of a call of query() or transaction() is
\* min(1000 * 2^(k-1), 5000) ms, so the waits never decrease; there are
\* fewer waits than attempts allowed, and the step that handles a
\* non-retryable error or the failure of the last attempt waits nothing
C39_BackoffExponentialCapped ==
  [][\A p \in Procs : tx[p].kind \in {"query", "transaction"} =>
       /\ \A k \in 1..Len(tx[p].delays) :
            /\ tx[p].delays[k] = (IF 2 ^ (k - 1) < 5 THEN 1000 * 2 ^ (k - 1) ELSE 5000)
            /\ k > 1 => tx[p].delays[k - 1] <= tx[p].delays[k]
       /\ Len(tx[p].delays) < tx[p].retries
       /\ tx[p].pc = "decide" /\ tx'[p].pc # "decide" =>
            IF NonRetryable(tx[p].lastError) \/ tx[p].attempt >= tx[p].retries
              THEN tx'[p].delays = tx[p].delays
              ELSE Len(tx'[p].delays) = tx[p].attempt
    ]_vars

\* a call of transaction() has waited 1000, 2000, 4000 and then the cap of
\* 5000 ms, and its last attempt has failed without a wait
C39_Witness ==
  \E p \in Procs :
    /\ tx[p].kind = "transaction" /\ tx[p].pc = "done" /\ tx[p].outcome = "thrown"
    /\ Len(tx[p].delays) = tx[p].retries - 1 /\ Len(tx[p].delays) >= 4
    /\ SubSeq(tx[p].delays, 1, 4) = <<1000, 2000, 4000, 5000>>

\* C36: a slot that has finished holds no client, and the clients of the
\* pool are the free ones and those held by the slots
C36_ClientsReleased ==
  /\ \A p \in Procs : tx[p].pc = "done" => ~tx[p].att.client
  /\ db.free + Cardinality({p \in Procs : tx[p].att.client}) = PoolMax
  /\ (\A p \in Procs : tx[p].pc \in {"idle", "done"}) => db.free = PoolMax

\* a movement request served by a handler
IsMovement(p) == tx[p].kind = "handler"

\* C31: a movement request that was answered after a connection error has
\* made more than one attempt
C31_MovementsRetried ==
  \A p \in Procs :
    IsMovement(p) /\ tx[p].pc = "done" /\ ConnectionError \in {tx[p].lastError, tx[p].thrown}
      => tx[p].attempt > 1

\* the store could not give a connection to the request of slot p
NoConnection(p) ==
  /\ tx[p].pc = "done"
  /\ \/ tx[p].kind = "handler" /\ tx[p].thrown = ConnectionError /\ tx[p].released = 0
     \/ tx[p].kind \in {"read", "wrapped"} /\ tx[p].lastError = ConnectionError

\* C32: a request that could not obtain a connection is answered 503 with a
\* code that is not the one of an internal error
C32_UnavailableIs503 ==
  \A p \in Procs : NoConnection(p) =>
    /\ Len(tx[p].responses) = 1
    /\ tx[p].responses[1].status = 503
    /\ tx[p].responses[1].code \notin {"", "INTERNAL_ERROR"}

\* C33: a 500 response carries a fixed text, never the message of the error
C33_NoErrorTextIn500 ==
  \A p \in Procs : \A k \in 1..Len(tx[p].responses) :
    tx[p].responses[k].status = 500 => tx[p].responses[k].error = "fixed"

\* C37: a movement request that has finished has been sent one response
C37_ExactlyOneResponse ==
  \A p \in Procs :
    /\ IsMovement(p) => Len(tx[p].responses) <= 1
    /\ IsMovement(p) /\ tx[p].pc = "done" => Len(tx[p].responses) = 1
====
